---- MODULE Spec2Model ----
(***************************************************************************)
(* A model of the package linq (linq/linq.go): sequences as push           *)
(* producers, the combinators built on them, the non-local exit of         *)
(* LoopWithExit (panic/recover on the address of a token) and the          *)
(* goroutine/channel handshake of Zip.                                     *)
(*                                                                         *)
(* Go's nested closure calls are modelled by an explicit call stack per    *)
(* goroutine.  A frame is one activation of a function or closure of       *)
(* linq.go; an action is one step of the frame on top of a stack.          *)
(***************************************************************************)
EXTENDS Integers, Sequences, FiniteSets, TLC

(***************************************************************************)
(* Bounds of the model.                                                    *)
(***************************************************************************)
MaxLen == 2        \* longest slice handed to From
MaxTake == 3       \* largest n handed to Take
MaxPulls == 6      \* an infinite source is observed for this many elements
IntBits == 4       \* width of the modelled machine int
MaxG == 3          \* goroutines a program starts: the caller and a worker per run

(***************************************************************************)
(* Values.  Elements are machine ints; Poi is the one element of a []any   *)
(* slice that is not an int (errors.New("poi") in the examples).           *)
(***************************************************************************)
Poi == 99

RECURSIVE Pow2(_)
Pow2(k) == IF k = 0 THEN 1 ELSE 2 * Pow2(k - 1)

MinInt == 0 - Pow2(IntBits - 1)
MaxInt == Pow2(IntBits - 1) - 1

\* Go's int arithmetic wraps silently.
Wrap(x) == ((x - MinInt) % Pow2(IntBits)) + MinInt

IsInt(e) == e # Poi

\* The functions the examples hand to Select, Zip and Aggregate.
Apply1(fn, x) ==
    CASE fn = "inc" -> Wrap(x + 1)
      [] fn = "sq"  -> Wrap(x * x)
      [] OTHER      -> x

Apply2(fn, a, b) ==
    CASE fn = "add"    -> Wrap(a + b)
      [] fn = "mul"    -> Wrap(a * b)
      [] fn = "addInt" -> Wrap(a + b)
      [] OTHER         -> a

\* func(a, b Any) Any { return a.(int) + b.(int) }: the type assertion
\* panics when an operand is not an int.
Panics2(fn, a, b) == fn = "addInt" /\ (~IsInt(a) \/ ~IsInt(b))

\* The predicates the examples hand to Where, TakeWhile and SkipWhile.
Pred(fn, x) ==
    CASE fn = "odd" -> x % 2 = 1
      [] fn = "lt2" -> x < 2
      [] OTHER      -> TRUE

(***************************************************************************)
(* Enumerator values.  Constructing a combinator runs nothing: it returns  *)
(* a closure over its arguments.  A closure is a node; a pipeline is a     *)
(* table of nodes whose last node is the pipeline itself, and up/up2 are   *)
(* the table indices of the captured upstream Enumerators.                 *)
(***************************************************************************)
N0 == [op |-> "", n |-> 0, m |-> 0, xs |-> <<>>, fn |-> "", up |-> 0, up2 |-> 0]

Shift(t, k) ==
    [j \in 1..Len(t) |->
        [t[j] EXCEPT !.up  = IF @ = 0 THEN 0 ELSE @ + k,
                     !.up2 = IF @ = 0 THEN 0 ELSE @ + k]]

Unary(op, n, fn, t) ==
    Append(t, [N0 EXCEPT !.op = op, !.n = n, !.fn = fn, !.up = Len(t)])

Binary(op, fn, t1, t2) ==
    t1 \o Shift(t2, Len(t1)) \o
    <<[N0 EXCEPT !.op = op, !.fn = fn, !.up = Len(t1), !.up2 = Len(t1) + Len(t2)]>>

From(xs)            == <<[N0 EXCEPT !.op = "From", !.xs = xs]>>
\* FromReader over a reader holding the lines xs whose scanner ends with
\* error err (0: no error).
FromReader(xs, err) == <<[N0 EXCEPT !.op = "FromReader", !.xs = xs, !.n = err]>>
Empty               == <<[N0 EXCEPT !.op = "Empty"]>>
RangeEnd(start, count) == Wrap(start + count)
Range(start, count) == <<[N0 EXCEPT !.op = "Range", !.n = start,
                                    !.m = RangeEnd(start, count)]>>
Repeat(element, count) == <<[N0 EXCEPT !.op = "Repeat", !.n = element, !.m = count]>>
\* Repeat(e, count) built by the function handed to SelectMany from its
\* argument e.
RepeatArg(count)    == <<[N0 EXCEPT !.op = "Repeat", !.fn = "arg", !.m = count]>>
IntsFrom(n)         == <<[N0 EXCEPT !.op = "IntsFrom", !.n = n]>>

Select(f, t)        == Unary("Select", 0, f, t)
Where(p, t)         == Unary("Where", 0, p, t)
Take(n, t)          == Unary("Take", n, "", t)
TakeWhile(p, t)     == Unary("TakeWhile", 0, p, t)
Skip(n, t)          == Unary("Skip", n, "", t)
SkipWhile(p, t)     == Unary("SkipWhile", 0, p, t)
Concat(t1, t2)      == Binary("Concat", "", t1, t2)
Zip(f, t1, t2)      == Binary("Zip", f, t1, t2)
\* SelectMany(f, t1) where f(e) builds the pipeline t2 from e.
SelectMany(t2, t1)  == Binary("SelectMany", "", t1, t2)


(***************************************************************************)
(* State.                                                                  *)
(*   prog     the pipeline under test and the caller that drives it        *)
(*   gs       the goroutines: a call stack each, and the panic in flight   *)
(*   chans    the channels made so far                                     *)
(*   out      what the caller got back from each run                       *)
(*   stdout   what the caller's callbacks printed                          *)
(*   pulled   per source node, the number of elements it has yielded       *)
(*   status   running, returned, failed (a panic reached the caller),      *)
(*            crashed (a panic left a goroutine unrecovered)               *)
(*   failure  the panic value that ended the program                       *)
(*   nextTok  the next fresh address of a token variable                   *)
(***************************************************************************)
VARIABLES prog, gs, chans, out, stdout, pulled, status, failure, nextTok

vars == <<prog, gs, chans, out, stdout, pulled, status, failure, nextTok>>

Node(k) == prog.nodes[k]
Root    == Len(prog.nodes)

NoPanic      == [k |-> "none", v |-> 0]
TokenPanic(t) == [k |-> "token", v |-> t]     \* panic(&token)
ErrPanic(e)   == [k |-> "err", v |-> e]       \* panic(err)
ClosedPanic   == [k |-> "runtime", v |-> 0]   \* send on closed channel
ConvPanic     == [k |-> "conv", v |-> 0]      \* failed type assertion

\* A frame: fn and role name the function or closure, pc the place in it.
\*   node  the Enumerator the frame runs         arg  the argument of the
\*   y     the stack index whose callback is          SelectMany function
\*         this frame's yield                    tok  LoopWithExit's token
\*   env   the stack index of the frame whose    x    the LoopWithExit frame
\*         variables a closure captured               whose exit f received
\*   i, e, e2, ok, acc, lst  locals              dc, qc  dataChan, quitChan
F0 == [fn |-> "", role |-> "run", pc |-> "start", node |-> 0, y |-> 0, env |-> 0,
       x |-> 0, i |-> 0, e |-> 0, e2 |-> 0, ok |-> FALSE, tok |-> 0, dc |-> 0,
       qc |-> 0, lst |-> <<>>, arg |-> 0, acc |-> 0]

Goroutines == 1..MaxG

Stk(g)   == gs[g].stack
Depth(g) == Len(Stk(g))
Top(g)   == Stk(g)[Depth(g)]

\* Goroutine g is about to execute the frame fn/role (not unwinding).
Live(g) == g <= Len(gs) /\ status # "crashed" /\ Depth(g) > 0

At(g, fn, role) ==
    /\ Live(g)
    /\ gs[g].pan = NoPanic
    /\ Top(g).fn = fn
    /\ Top(g).role = role

AtPc(g, fn, role, pc) == At(g, fn, role) /\ Top(g).pc = pc

Go(g, s)     == gs' = [gs EXCEPT ![g].stack = s]
Raise(g, p)  == gs' = [gs EXCEPT ![g].pan = p]

SetTop(s, f) == [s EXCEPT ![Len(s)] = f]
Ret(s)       == SubSeq(s, 1, Len(s) - 1)
\* Call: the caller moves to pc and the callee's frame is pushed.
Call(s, pc, f) == Append([s EXCEPT ![Len(s)].pc = pc], f)

\* loop(callback): run Enumerator k with the callback of frame y.
RunFrame(k, y, arg) ==
    [F0 EXCEPT !.fn = Node(k).op, !.node = k, !.y = y, !.arg = arg]

\* yield(v): the callback closure created by frame y, applied to v.
CbFrame(s, y, v) ==
    [F0 EXCEPT !.fn = s[y].fn, !.role = IF s[y].role = "run" THEN "cb" ELSE "cb2",
               !.env = y, !.e = v]

OnlyGs == UNCHANGED <<prog, chans, out, stdout, pulled, status, failure, nextTok>>
OnlyGsPulled == UNCHANGED <<prog, chans, out, stdout, status, failure, nextTok>>

(***************************************************************************)
(* Sources.                                                                *)
(***************************************************************************)
\* for _, element := range x { yield(element) }
FromRun(g) ==
    /\ At(g, "From", "run")
    /\ LET s == Stk(g)  f == Top(g)  xs == Node(f.node).xs IN
       IF f.i < Len(xs)
       THEN /\ Go(g, Append(SetTop(s, [f EXCEPT !.i = f.i + 1]),
                            CbFrame(s, f.y, xs[f.i + 1])))
            /\ pulled' = [pulled EXCEPT ![f.node] = @ + 1]
       ELSE /\ Go(g, Ret(s))
            /\ UNCHANGED pulled
    /\ OnlyGsPulled

\* for scanner.Scan() { yield(scanner.Text()) }; if err != nil { panic(err) }
FromReaderRun(g) ==
    /\ At(g, "FromReader", "run")
    /\ LET s == Stk(g)  f == Top(g)  nd == Node(f.node) IN
       IF f.i < Len(nd.xs)
       THEN /\ Go(g, Append(SetTop(s, [f EXCEPT !.i = f.i + 1]),
                            CbFrame(s, f.y, nd.xs[f.i + 1])))
            /\ pulled' = [pulled EXCEPT ![f.node] = @ + 1]
       ELSE /\ IF nd.n # 0 THEN Raise(g, ErrPanic(nd.n)) ELSE Go(g, Ret(s))
            /\ UNCHANGED pulled
    /\ OnlyGsPulled

\* func(yield func(T)) {}
EmptyRun(g) ==
    /\ At(g, "Empty", "run")
    /\ Go(g, Ret(Stk(g)))
    /\ OnlyGs

\* for i := start; i < end; i++ { yield(i) }
RangeRun(g) ==
    /\ At(g, "Range", "run")
    /\ LET s == Stk(g)  f == Top(g)  nd == Node(f.node) IN
       CASE f.pc = "start" ->
              /\ Go(g, SetTop(s, [f EXCEPT !.i = nd.n, !.pc = "test"]))
              /\ UNCHANGED pulled
         [] f.pc = "test" ->
              IF f.i < nd.m
              THEN /\ Go(g, Call(s, "inc", CbFrame(s, f.y, f.i)))
                   /\ pulled' = [pulled EXCEPT ![f.node] = @ + 1]
              ELSE /\ Go(g, Ret(s))
                   /\ UNCHANGED pulled
         [] f.pc = "inc" ->
              /\ Go(g, SetTop(s, [f EXCEPT !.i = Wrap(f.i + 1), !.pc = "test"]))
              /\ UNCHANGED pulled
    /\ OnlyGsPulled

\* for i := 0; i < count; i++ { yield(element) }
RepeatRun(g) ==
    /\ At(g, "Repeat", "run")
    /\ LET s == Stk(g)  f == Top(g)  nd == Node(f.node)
           element == IF nd.fn = "arg" THEN f.arg ELSE nd.n IN
       IF f.i < nd.m
       THEN /\ Go(g, Append(SetTop(s, [f EXCEPT !.i = Wrap(f.i + 1)]),
                            CbFrame(s, f.y, element)))
            /\ pulled' = [pulled EXCEPT ![f.node] = @ + 1]
       ELSE /\ Go(g, Ret(s))
            /\ UNCHANGED pulled
    /\ OnlyGsPulled

\* IntsFrom whose counter is never incremented.
IntsFromRunStuck(g) ==
    /\ At(g, "IntsFrom", "run")
    /\ pulled[Top(g).node] < MaxPulls
    /\ LET s == Stk(g)  f == Top(g)  nd == Node(f.node) IN
       CASE f.pc = "start" ->
              /\ Go(g, SetTop(s, [f EXCEPT !.i = nd.n, !.pc = "yield"]))
              /\ UNCHANGED pulled
         [] f.pc = "yield" ->
              /\ Go(g, Call(s, "inc", CbFrame(s, f.y, f.i)))
              /\ pulled' = [pulled EXCEPT ![f.node] = @ + 1]
         [] f.pc = "inc" ->
              /\ Go(g, SetTop(s, [f EXCEPT !.pc = "yield"]))
              /\ UNCHANGED pulled
    /\ OnlyGsPulled

\* for i := n; ; i++ { yield(i) }
IntsFromRun(g) ==
    /\ At(g, "IntsFrom", "run")
    /\ pulled[Top(g).node] < MaxPulls
    /\ LET s == Stk(g)  f == Top(g)  nd == Node(f.node) IN
       CASE f.pc = "start" ->
              /\ Go(g, SetTop(s, [f EXCEPT !.i = nd.n, !.pc = "yield"]))
              /\ UNCHANGED pulled
         [] f.pc = "yield" ->
              /\ Go(g, Call(s, "inc", CbFrame(s, f.y, f.i)))
              /\ pulled' = [pulled EXCEPT ![f.node] = @ + 1]
         [] f.pc = "inc" ->
              /\ Go(g, SetTop(s, [f EXCEPT !.i = Wrap(f.i + 1), !.pc = "yield"]))
              /\ UNCHANGED pulled
    /\ OnlyGsPulled


(***************************************************************************)
(* Collectors and folds.                                                   *)
(***************************************************************************)
\* The copy loop of ToSlice: result[i] = element.Value.(T), front to back.
RECURSIVE CopyList(_)
CopyList(lst) ==
    IF lst = <<>> THEN <<>> ELSE <<Head(lst)>> \o CopyList(Tail(lst))

\* return: pop the frame and hand the result to the caller's frame.
RetLst(s, l) == [Ret(s) EXCEPT ![Len(s) - 1].lst = l]
RetAcc(s, a) == [Ret(s) EXCEPT ![Len(s) - 1].acc = a]

ToSliceRun(g) ==
    /\ At(g, "ToSlice", "run")
    /\ LET s == Stk(g)  f == Top(g) IN
       IF f.pc = "start"
       THEN Go(g, Call(s, "ret", [F0 EXCEPT !.fn = "ToList", !.node = f.node]))
       ELSE Go(g, RetLst(s, CopyList(f.lst)))
    /\ OnlyGs

ToListRun(g) ==
    /\ At(g, "ToList", "run")
    /\ LET s == Stk(g)  f == Top(g) IN
       IF f.pc = "start"
       THEN Go(g, Call(s, "ret", RunFrame(f.node, Len(s), 0)))
       ELSE Go(g, RetLst(s, f.lst))
    /\ OnlyGs

\* result.PushBack(element)
ToListCb(g) ==
    /\ At(g, "ToList", "cb")
    /\ LET s == Stk(g)  f == Top(g) IN
       Go(g, Ret([s EXCEPT ![f.env].lst = Append(@, f.e)]))
    /\ OnlyGs

AggregateRun(g) ==
    /\ At(g, "Aggregate", "run")
    /\ LET s == Stk(g)  f == Top(g) IN
       IF f.pc = "start"
       THEN Go(g, Call(s, "ret", RunFrame(f.node, Len(s), 0)))
       ELSE Go(g, RetLst(s, <<f.acc>>))
    /\ OnlyGs

\* seed = f(seed, element)
AggregateCb(g) ==
    /\ At(g, "Aggregate", "cb")
    /\ LET s == Stk(g)  f == Top(g) IN
       Go(g, Ret([s EXCEPT ![f.env].acc = Apply2(prog.fn, @, f.e)]))
    /\ OnlyGs

LweFrame(k, arg) == [F0 EXCEPT !.fn = "LoopWithExit", !.node = k, !.arg = arg]

AggregateWithExitRun(g) ==
    /\ At(g, "AggregateWithExit", "run")
    /\ LET s == Stk(g)  f == Top(g) IN
       IF f.pc = "start"
       THEN Go(g, Call(s, "ret", LweFrame(f.node, 0)))
       ELSE Go(g, RetLst(s, <<f.acc>>))
    /\ OnlyGs

\* func(element T, _exit func()) { exit := ...; seed = f(seed, element, exit) }
AggregateWithExitF(g) ==
    /\ At(g, "AggregateWithExit", "f")
    /\ LET s == Stk(g)  f == Top(g) IN
       IF f.pc = "start"
       THEN Go(g, Call(s, "assign",
                       [F0 EXCEPT !.fn = "AggF", !.env = f.env, !.x = f.x,
                                  !.e = f.e, !.acc = s[f.env].acc]))
       ELSE Go(g, Ret([s EXCEPT ![f.env].acc = f.acc]))
    /\ OnlyGs

\* An exit closure that forgets seed = x.
AggregateWithExitExitNoSeed(g) ==
    /\ At(g, "AggregateWithExit", "exit")
    /\ LET s == Stk(g)  f == Top(g) IN
       IF f.pc = "start"
       THEN Go(g, SetTop(s, [f EXCEPT !.pc = "_exit"]))
       ELSE Raise(g, TokenPanic(s[f.x].tok))
    /\ OnlyGs

\* exit := func(x S) { seed = x; _exit() }
AggregateWithExitExit(g) ==
    /\ At(g, "AggregateWithExit", "exit")
    /\ LET s == Stk(g)  f == Top(g) IN
       IF f.pc = "start"
       THEN Go(g, SetTop([s EXCEPT ![f.env].acc = f.acc], [f EXCEPT !.pc = "_exit"]))
       ELSE Raise(g, TokenPanic(s[f.x].tok))
    /\ OnlyGs

\* The function of ExampleAggregateWithExit:
\*   if bi, ok := b.(int); ok { return a * bi }; exit(-1 * a); return 0
AggF(g) ==
    /\ At(g, "AggF", "run")
    /\ LET s == Stk(g)  f == Top(g) IN
       CASE f.pc = "start" /\ IsInt(f.e) ->
              Go(g, RetAcc(s, Apply2("mul", f.acc, f.e)))
         [] f.pc = "start" /\ ~IsInt(f.e) ->
              Go(g, Call(s, "dummy",
                         [F0 EXCEPT !.fn = "AggregateWithExit", !.role = "exit",
                                    !.env = f.env, !.x = f.x,
                                    !.acc = Wrap((0 - 1) * f.acc)]))
         [] OTHER ->
              Go(g, RetAcc(s, 0))
    /\ OnlyGs

(***************************************************************************)
(* LoopWithExit.                                                           *)
(***************************************************************************)
\* var token tokenType; defer func() {...}(); loop(func(element T) {...})
LoopWithExitRun(g) ==
    /\ AtPc(g, "LoopWithExit", "run", "start")
    /\ LET s == Stk(g)  f == Top(g) IN
       Go(g, Call(SetTop(s, [f EXCEPT !.tok = nextTok]), "ret",
                  RunFrame(f.node, Len(s), f.arg)))
    /\ nextTok' = nextTok + 1
    /\ UNCHANGED <<prog, chans, out, stdout, pulled, status, failure>>

\* Tokens compared by value: every token looks like the frame's own.
ForeignByValue(r, f) == r # NoPanic /\ r.k # "token"

\* A recover that re-raises tokens only and swallows every other panic.
ForeignTokensOnly(r, f) == r.k = "token" /\ r # TokenPanic(f.tok)

\* if r != nil && r != &token: tokens are compared by address.
Foreign(r, f) == r # NoPanic /\ r # TokenPanic(f.tok)

\* The deferred function, run when the frame is left, normally or by a panic:
\*   r := recover(); if r != nil && r != &token { panic(r) }
LoopWithExitDefer(g) ==
    /\ Live(g)
    /\ Top(g).fn = "LoopWithExit" /\ Top(g).role = "run" /\ Top(g).pc = "ret"
    /\ LET s == Stk(g)  f == Top(g)  r == gs[g].pan IN
       gs' = [gs EXCEPT ![g].stack = Ret(s),
                        ![g].pan = IF Foreign(r, f) THEN r ELSE NoPanic]
    /\ OnlyGs

\* func(element T) { f(element, exit) }
LoopWithExitCb(g) ==
    /\ At(g, "LoopWithExit", "cb")
    /\ LET s == Stk(g)  f == Top(g) IN
       IF f.pc = "start"
       THEN Go(g, Call(s, "ret",
                       [F0 EXCEPT !.fn = s[f.env - 1].fn, !.role = "f",
                                  !.env = f.env - 1, !.x = f.env, !.e = f.e]))
       ELSE Go(g, Ret(s))
    /\ OnlyGs

\* An exit that only returns to f instead of unwinding.
ExitReturns(g) == Go(g, Ret(Stk(g)))

\* exit(): panic(&token) of the LoopWithExit frame that made this exit.
Exit(g) == Raise(g, TokenPanic(Stk(g)[Top(g).x].tok))

\* A panic leaves a frame that has no deferred function.
Unwind(g) ==
    /\ Live(g)
    /\ gs[g].pan # NoPanic
    /\ ~(Top(g).role = "run" /\ Top(g).fn \in {"LoopWithExit", "Zip", "sendForEach", "main"})
    /\ Go(g, Ret(Stk(g)))
    /\ OnlyGs


(***************************************************************************)
(* Combinators.  Each returned closure runs its upstream with a callback;  *)
(* the callback reaches the closure's variables through env.               *)
(***************************************************************************)
\* loop(func(element T) {...}) and return: Select, Where, SelectMany.
UpstreamRun(g, fn) ==
    /\ At(g, fn, "run")
    /\ LET s == Stk(g)  f == Top(g) IN
       IF f.pc = "start"
       THEN Go(g, Call(s, "ret", RunFrame(Node(f.node).up, Len(s), f.arg)))
       ELSE Go(g, Ret(s))
    /\ OnlyGs

SelectRun(g) == UpstreamRun(g, "Select")

\* A Select that applies f to its own result once more.
SelectCbTwice(g) ==
    /\ At(g, "Select", "cb")
    /\ LET s == Stk(g)  f == Top(g)  r == s[f.env]  fn == Node(r.node).fn IN
       IF f.pc = "start"
       THEN Go(g, Call(s, "ret", CbFrame(s, r.y, Apply1(fn, Apply1(fn, f.e)))))
       ELSE Go(g, Ret(s))
    /\ OnlyGs

\* value := f(element); yield(value)
SelectCb(g) ==
    /\ At(g, "Select", "cb")
    /\ LET s == Stk(g)  f == Top(g)  r == s[f.env] IN
       IF f.pc = "start"
       THEN Go(g, Call(s, "ret", CbFrame(s, r.y, Apply1(Node(r.node).fn, f.e))))
       ELSE Go(g, Ret(s))
    /\ OnlyGs

SelectManyRun(g) == UpstreamRun(g, "SelectMany")

\* eachLoop := f(element); eachLoop(func(eachElement R) {...})
SelectManyCb(g) ==
    /\ At(g, "SelectMany", "cb")
    /\ LET s == Stk(g)  f == Top(g)  r == s[f.env] IN
       IF f.pc = "start"
       THEN Go(g, Call(s, "ret", RunFrame(Node(r.node).up2, Len(s), f.e)))
       ELSE Go(g, Ret(s))
    /\ OnlyGs

\* yield(eachElement)
SelectManyCb2(g) ==
    /\ At(g, "SelectMany", "cb2")
    /\ LET s == Stk(g)  f == Top(g)  r == s[s[f.env].env] IN
       IF f.pc = "start"
       THEN Go(g, Call(s, "ret", CbFrame(s, r.y, f.e)))
       ELSE Go(g, Ret(s))
    /\ OnlyGs

WhereRun(g) == UpstreamRun(g, "Where")

\* if predicate(element) { yield(element) }
WhereCb(g) ==
    /\ At(g, "Where", "cb")
    /\ LET s == Stk(g)  f == Top(g)  r == s[f.env] IN
       IF f.pc = "start" /\ Pred(Node(r.node).fn, f.e)
       THEN Go(g, Call(s, "ret", CbFrame(s, r.y, f.e)))
       ELSE Go(g, Ret(s))
    /\ OnlyGs

\* if n > 0 { i := 0; loop.LoopWithExit(func(element T, exit func()) {...}) }
TakeRun(g) ==
    /\ At(g, "Take", "run")
    /\ LET s == Stk(g)  f == Top(g)  nd == Node(f.node) IN
       IF f.pc = "start" /\ nd.n > 0
       THEN Go(g, Call(SetTop(s, [f EXCEPT !.i = 0]), "ret", LweFrame(nd.up, f.arg)))
       ELSE Go(g, Ret(s))
    /\ OnlyGs

\* Take's test off by one: if i > n.
TakeDoneLate(i, n) == i > n

\* The test of Take's callback after yield returned: if i >= n.
TakeDone(i, n) == i >= n

\* A Take that stops yielding after n elements but never calls exit.
TakeFNoExit(g) ==
    /\ At(g, "Take", "f")
    /\ LET s == Stk(g)  f == Top(g)  r == s[f.env] IN
       IF f.pc = "start" /\ r.i < Node(r.node).n
       THEN Go(g, Call([s EXCEPT ![f.env].i = Wrap(@ + 1)], "check",
                       CbFrame(s, r.y, f.e)))
       ELSE Go(g, Ret(s))
    /\ OnlyGs

\* i++; yield(element); if i >= n { exit() }
TakeF(g) ==
    /\ At(g, "Take", "f")
    /\ LET s == Stk(g)  f == Top(g)  r == s[f.env] IN
       CASE f.pc = "start" ->
              Go(g, Call([s EXCEPT ![f.env].i = Wrap(@ + 1)], "check",
                         CbFrame(s, r.y, f.e)))
         [] f.pc = "check" /\ TakeDone(r.i, Node(r.node).n) ->
              Exit(g)
         [] OTHER ->
              Go(g, Ret(s))
    /\ OnlyGs

\* loop.LoopWithExit(func(element T, exit func()) {...})
TakeWhileRun(g) ==
    /\ At(g, "TakeWhile", "run")
    /\ LET s == Stk(g)  f == Top(g) IN
       IF f.pc = "start"
       THEN Go(g, Call(s, "ret", LweFrame(Node(f.node).up, f.arg)))
       ELSE Go(g, Ret(s))
    /\ OnlyGs

\* A TakeWhile that skips the failing element and goes on.
TakeWhileFNoExit(g) ==
    /\ At(g, "TakeWhile", "f")
    /\ LET s == Stk(g)  f == Top(g)  r == s[f.env] IN
       IF f.pc = "start" /\ Pred(Node(r.node).fn, f.e)
       THEN Go(g, Call(s, "ret", CbFrame(s, r.y, f.e)))
       ELSE Go(g, Ret(s))
    /\ OnlyGs

\* if predicate(element) { yield(element) } else { exit() }
TakeWhileF(g) ==
    /\ At(g, "TakeWhile", "f")
    /\ LET s == Stk(g)  f == Top(g)  r == s[f.env] IN
       CASE f.pc = "start" /\ Pred(Node(r.node).fn, f.e) ->
              Go(g, Call(s, "ret", CbFrame(s, r.y, f.e)))
         [] f.pc = "start" /\ ~Pred(Node(r.node).fn, f.e) ->
              Exit(g)
         [] OTHER ->
              Go(g, Ret(s))
    /\ OnlyGs

\* i := 0; loop(func(element T) {...})
SkipRun(g) ==
    /\ At(g, "Skip", "run")
    /\ LET s == Stk(g)  f == Top(g) IN
       IF f.pc = "start"
       THEN Go(g, Call(SetTop(s, [f EXCEPT !.i = 0]), "ret",
                       RunFrame(Node(f.node).up, Len(s), f.arg)))
       ELSE Go(g, Ret(s))
    /\ OnlyGs

\* if i >= n { yield(element) } else { i++ }
SkipCb(g) ==
    /\ At(g, "Skip", "cb")
    /\ LET s == Stk(g)  f == Top(g)  r == s[f.env] IN
       CASE f.pc = "start" /\ r.i >= Node(r.node).n ->
              Go(g, Call(s, "ret", CbFrame(s, r.y, f.e)))
         [] f.pc = "start" /\ r.i < Node(r.node).n ->
              Go(g, Ret([s EXCEPT ![f.env].i = Wrap(@ + 1)]))
         [] OTHER ->
              Go(g, Ret(s))
    /\ OnlyGs

\* atHead := true; loop(func(element T) {...})
SkipWhileRun(g) ==
    /\ At(g, "SkipWhile", "run")
    /\ LET s == Stk(g)  f == Top(g) IN
       IF f.pc = "start"
       THEN Go(g, Call(SetTop(s, [f EXCEPT !.ok = TRUE]), "ret",
                       RunFrame(Node(f.node).up, Len(s), f.arg)))
       ELSE Go(g, Ret(s))
    /\ OnlyGs

\* A SkipWhile that never clears atHead.
SkipWhileCbAtHead(g) ==
    /\ At(g, "SkipWhile", "cb")
    /\ LET s == Stk(g)  f == Top(g)  r == s[f.env] IN
       CASE f.pc = "start" /\ r.ok /\ Pred(Node(r.node).fn, f.e) ->
              Go(g, Ret(s))
         [] f.pc = "start" /\ ~(r.ok /\ Pred(Node(r.node).fn, f.e)) ->
              Go(g, Call(s, "ret", CbFrame(s, r.y, f.e)))
         [] OTHER ->
              Go(g, Ret(s))
    /\ OnlyGs

\* if atHead { if predicate(element) { return }; atHead = false }; yield(element)
SkipWhileCb(g) ==
    /\ At(g, "SkipWhile", "cb")
    /\ LET s == Stk(g)  f == Top(g)  r == s[f.env] IN
       CASE f.pc = "start" /\ r.ok /\ Pred(Node(r.node).fn, f.e) ->
              Go(g, Ret(s))
         [] f.pc = "start" /\ ~(r.ok /\ Pred(Node(r.node).fn, f.e)) ->
              Go(g, Call([s EXCEPT ![f.env].ok = FALSE], "ret", CbFrame(s, r.y, f.e)))
         [] OTHER ->
              Go(g, Ret(s))
    /\ OnlyGs

\* A Concat that runs loop2 before loop.
ConcatRunSwapped(g) ==
    /\ At(g, "Concat", "run")
    /\ LET s == Stk(g)  f == Top(g)  nd == Node(f.node) IN
       CASE f.pc = "start" ->
              Go(g, Call(s, "second", RunFrame(nd.up2, Len(s), f.arg)))
         [] f.pc = "second" ->
              Go(g, Call(s, "ret", RunFrame(nd.up, Len(s), f.arg)))
         [] OTHER ->
              Go(g, Ret(s))
    /\ OnlyGs

\* body := func(element T) { yield(element) }; loop(body); loop2(body)
ConcatRun(g) ==
    /\ At(g, "Concat", "run")
    /\ LET s == Stk(g)  f == Top(g)  nd == Node(f.node) IN
       CASE f.pc = "start" ->
              Go(g, Call(s, "second", RunFrame(nd.up, Len(s), f.arg)))
         [] f.pc = "second" ->
              Go(g, Call(s, "ret", RunFrame(nd.up2, Len(s), f.arg)))
         [] OTHER ->
              Go(g, Ret(s))
    /\ OnlyGs

ConcatCb(g) ==
    /\ At(g, "Concat", "cb")
    /\ LET s == Stk(g)  f == Top(g)  r == s[f.env] IN
       IF f.pc = "start"
       THEN Go(g, Call(s, "ret", CbFrame(s, r.y, f.e)))
       ELSE Go(g, Ret(s))
    /\ OnlyGs


(***************************************************************************)
(* Zip: the caller's goroutine drives loop1, a worker goroutine drives     *)
(* loop2; quitChan (capacity 1) carries requests and, closed, the stop     *)
(* signal; dataChan (unbuffered) carries loop2's elements.                 *)
(***************************************************************************)
NewChan(cap) == [buf |-> <<>>, cap |-> cap, closed |-> FALSE]

\* Zip whose channels are made once, outside the returned closure, and
\* shared by every run.
ZipRunShared(g) ==
    /\ AtPc(g, "Zip", "run", "start")
    /\ LET s == Stk(g)  f == Top(g)
           base == IF chans = <<>> THEN 0 ELSE Len(chans) - 2
           worker == [F0 EXCEPT !.fn = "sendForEach", !.node = Node(f.node).up2,
                                !.dc = base + 1, !.qc = base + 2, !.arg = f.arg]
       IN  /\ chans' = IF chans = <<>> THEN <<NewChan(0), NewChan(1)>> ELSE chans
           /\ gs' = Append([gs EXCEPT ![g].stack =
                              SetTop(s, [f EXCEPT !.dc = base + 1, !.qc = base + 2,
                                                  !.i = Len(gs) + 1, !.pc = "loop"])],
                           [stack |-> <<worker>>, pan |-> NoPanic, zipDone |-> FALSE])
    /\ UNCHANGED <<prog, out, stdout, pulled, status, failure, nextTok>>

\* dataChan := make(chan U); quitChan := make(chan bool, 1);
\* defer close(quitChan); go sendForEach(loop2, quitChan, dataChan)
ZipRun(g) ==
    /\ AtPc(g, "Zip", "run", "start")
    /\ LET s == Stk(g)  f == Top(g)
           dc == Len(chans) + 1
           qc == Len(chans) + 2
           worker == [F0 EXCEPT !.fn = "sendForEach", !.node = Node(f.node).up2,
                                !.dc = dc, !.qc = qc, !.arg = f.arg]
       IN  /\ chans' = chans \o <<NewChan(0), NewChan(1)>>
           /\ gs' = Append([gs EXCEPT ![g].stack =
                              SetTop(s, [f EXCEPT !.dc = dc, !.qc = qc,
                                                  !.i = Len(gs) + 1, !.pc = "loop"])],
                           [stack |-> <<worker>>, pan |-> NoPanic, zipDone |-> FALSE])
    /\ UNCHANGED <<prog, out, stdout, pulled, status, failure, nextTok>>

\* loop1.LoopWithExit(func(element T, exit func()) {...})
ZipLoop(g) ==
    /\ AtPc(g, "Zip", "run", "loop")
    /\ LET s == Stk(g)  f == Top(g) IN
       Go(g, Call(s, "ret", LweFrame(Node(f.node).up, f.arg)))
    /\ OnlyGs

\* ZipDefer without the close: the stop signal is never sent.
ZipDeferNoClose(g) ==
    /\ Live(g)
    /\ Top(g).fn = "Zip" /\ Top(g).role = "run" /\ Top(g).pc = "ret"
    /\ gs' = [gs EXCEPT ![g].stack = Ret(Stk(g)), ![Top(g).i].zipDone = TRUE]
    /\ OnlyGs

\* A close(quitChan) written as the last statement of Zip's closure instead
\* of deferred: a panic leaves the closure without it.
ZipDeferOnReturn(g) ==
    /\ Live(g)
    /\ Top(g).fn = "Zip" /\ Top(g).role = "run" /\ Top(g).pc = "ret"
    /\ LET s == Stk(g)  f == Top(g) IN
       /\ chans' = [chans EXCEPT ![f.qc].closed = @ \/ gs[g].pan = NoPanic]
       /\ gs' = [gs EXCEPT ![g].stack = Ret(s), ![f.i].zipDone = TRUE]
    /\ UNCHANGED <<prog, out, stdout, pulled, status, failure, nextTok>>

\* The deferred close(quitChan), run when Zip's closure is left, normally or
\* by a panic.  zipDone records for the worker that its Zip run is over.
ZipDefer(g) ==
    /\ Live(g)
    /\ Top(g).fn = "Zip" /\ Top(g).role = "run" /\ Top(g).pc = "ret"
    /\ LET s == Stk(g)  f == Top(g) IN
       /\ chans' = [chans EXCEPT ![f.qc].closed = TRUE]
       /\ gs' = [gs EXCEPT ![g].stack = Ret(s), ![f.i].zipDone = TRUE]
    /\ UNCHANGED <<prog, out, stdout, pulled, status, failure, nextTok>>

\* quitChan <- true
ZipRequest(g) ==
    /\ AtPc(g, "Zip", "f", "start")
    /\ LET s == Stk(g)  f == Top(g)  qc == s[f.env].qc IN
       IF chans[qc].closed
       THEN /\ Raise(g, ClosedPanic)
            /\ UNCHANGED chans
       ELSE /\ Len(chans[qc].buf) < chans[qc].cap
            /\ chans' = [chans EXCEPT ![qc].buf = Append(@, 1)]
            /\ Go(g, SetTop(s, [f EXCEPT !.pc = "recv"]))
    /\ UNCHANGED <<prog, out, stdout, pulled, status, failure, nextTok>>

\* ZipRecvClosed that ignores ok: element2 := <-dataChan.
ZipRecvClosedOk(g) ==
    /\ AtPc(g, "Zip", "f", "recv")
    /\ LET s == Stk(g)  f == Top(g)  dc == s[f.env].dc IN
       /\ chans[dc].closed
       /\ Go(g, SetTop(s, [f EXCEPT !.e2 = 0, !.ok = TRUE, !.pc = "test"]))
    /\ OnlyGs

\* element2, ok := <-dataChan, when dataChan is closed: ok is false.
ZipRecvClosed(g) ==
    /\ AtPc(g, "Zip", "f", "recv")
    /\ LET s == Stk(g)  f == Top(g)  dc == s[f.env].dc IN
       /\ chans[dc].closed
       /\ Go(g, SetTop(s, [f EXCEPT !.e2 = 0, !.ok = FALSE, !.pc = "test"]))
    /\ OnlyGs

\* A Zip callback that returns at the end of loop2 instead of calling exit.
ZipFNoExit(g) ==
    /\ At(g, "Zip", "f")
    /\ Top(g).pc \in {"test", "ret"}
    /\ LET s == Stk(g)  f == Top(g)  r == s[f.env] IN
       CASE f.pc = "test" /\ f.ok /\ Panics2(Node(r.node).fn, f.e, f.e2) ->
              Raise(g, ConvPanic)
         [] f.pc = "test" /\ f.ok /\ ~Panics2(Node(r.node).fn, f.e, f.e2) ->
              Go(g, Call(s, "ret", CbFrame(s, r.y, Apply2(Node(r.node).fn, f.e, f.e2))))
         [] OTHER ->
              Go(g, Ret(s))
    /\ OnlyGs

\* if ok { value := f(element, element2); yield(value) } else { exit() }
ZipF(g) ==
    /\ At(g, "Zip", "f")
    /\ Top(g).pc \in {"test", "ret"}
    /\ LET s == Stk(g)  f == Top(g)  r == s[f.env] IN
       CASE f.pc = "test" /\ f.ok /\ Panics2(Node(r.node).fn, f.e, f.e2) ->
              Raise(g, ConvPanic)
         [] f.pc = "test" /\ f.ok /\ ~Panics2(Node(r.node).fn, f.e, f.e2) ->
              Go(g, Call(s, "ret", CbFrame(s, r.y, Apply2(Node(r.node).fn, f.e, f.e2))))
         [] f.pc = "test" /\ ~f.ok ->
              Exit(g)
         [] OTHER ->
              Go(g, Ret(s))
    /\ OnlyGs

\* loop.LoopWithExit(func(element U, exit func()) {...})
SendForEachRun(g) ==
    /\ AtPc(g, "sendForEach", "run", "start")
    /\ LET s == Stk(g)  f == Top(g) IN
       Go(g, Call(s, "ret", LweFrame(f.node, f.arg)))
    /\ OnlyGs

\* SendForEachDefer without the close: the end of loop2 is never signalled.
SendForEachDeferNoClose(g) ==
    /\ Live(g)
    /\ Top(g).fn = "sendForEach" /\ Top(g).role = "run" /\ Top(g).pc = "ret"
    /\ Go(g, Ret(Stk(g)))
    /\ UNCHANGED <<prog, chans, out, stdout, pulled, status, failure, nextTok>>

\* The deferred close(dataChan), on return and on a panic alike.
SendForEachDefer(g) ==
    /\ Live(g)
    /\ Top(g).fn = "sendForEach" /\ Top(g).role = "run" /\ Top(g).pc = "ret"
    /\ LET s == Stk(g)  f == Top(g) IN
       /\ chans' = [chans EXCEPT ![f.dc].closed = TRUE]
       /\ Go(g, Ret(s))
    /\ UNCHANGED <<prog, out, stdout, pulled, status, failure, nextTok>>

\* go sendForEach(...): a panic that leaves sendForEach has left the last
\* frame of its goroutine unrecovered, which ends the whole program.
SendForEachPanicked(g) ==
    /\ g <= Len(gs) /\ status # "crashed"
    /\ gs[g].stack = <<>> /\ gs[g].pan # NoPanic
    /\ status' = "crashed" /\ failure' = gs[g].pan
    /\ UNCHANGED <<prog, gs, chans, out, stdout, pulled, nextTok>>

\* A worker that reads the request without taking it out of quitChan.
SendForEachRecvPeek(g) ==
    /\ AtPc(g, "sendForEach", "f", "start")
    /\ LET s == Stk(g)  f == Top(g)  qc == s[f.env].qc IN
       IF chans[qc].buf # <<>>
       THEN Go(g, SetTop(s, [f EXCEPT !.ok = TRUE, !.pc = "send"]))
       ELSE /\ chans[qc].closed
            /\ Go(g, SetTop(s, [f EXCEPT !.ok = FALSE, !.pc = "exit"]))
    /\ UNCHANGED <<prog, chans, out, stdout, pulled, status, failure, nextTok>>

\* _, ok := <-quitChan: a buffered request, or the close.
SendForEachRecv(g) ==
    /\ AtPc(g, "sendForEach", "f", "start")
    /\ LET s == Stk(g)  f == Top(g)  qc == s[f.env].qc IN
       IF chans[qc].buf # <<>>
       THEN /\ chans' = [chans EXCEPT ![qc].buf = Tail(@)]
            /\ Go(g, SetTop(s, [f EXCEPT !.ok = TRUE, !.pc = "send"]))
       ELSE /\ chans[qc].closed
            /\ UNCHANGED chans
            /\ Go(g, SetTop(s, [f EXCEPT !.ok = FALSE, !.pc = "exit"]))
    /\ UNCHANGED <<prog, out, stdout, pulled, status, failure, nextTok>>

\* A send that returns before the primary has received, as on a dataChan
\* made with a buffer.
SendForEachSendNoWait(g) ==
    /\ AtPc(g, "sendForEach", "f", "send")
    /\ LET s == Stk(g)  f == Top(g)  dc == s[f.env].dc IN
       IF chans[dc].closed
       THEN Raise(g, ClosedPanic)
       ELSE Go(g, SetTop(s, [f EXCEPT !.pc = "ret"]))
    /\ OnlyGs

\* dataChan <- element: on the unbuffered channel the send and the primary's
\* receive (element2, ok := <-dataChan) happen together.
SendForEachSend(g) ==
    /\ AtPc(g, "sendForEach", "f", "send")
    /\ LET s == Stk(g)  f == Top(g)  dc == s[f.env].dc IN
       IF chans[dc].closed
       THEN Raise(g, ClosedPanic)
       ELSE \E h \in 1..Len(gs) :
              /\ AtPc(h, "Zip", "f", "recv")
              /\ Stk(h)[Top(h).env].dc = dc
              /\ gs' = [gs EXCEPT
                          ![g].stack = SetTop(s, [f EXCEPT !.pc = "ret"]),
                          ![h].stack = SetTop(Stk(h), [Top(h) EXCEPT !.e2 = f.e,
                                                       !.ok = TRUE, !.pc = "test"])]
    /\ OnlyGs

\* else { exit() }, and the return after the send.
SendForEachF(g) ==
    /\ At(g, "sendForEach", "f")
    /\ Top(g).pc \in {"exit", "ret"}
    /\ IF Top(g).pc = "exit" THEN Exit(g) ELSE Go(g, Ret(Stk(g)))
    /\ OnlyGs


(***************************************************************************)
(* The caller: the example functions that drive a pipeline.                *)
(***************************************************************************)
Dashes == 98    \* Println("---")

\* x.ToSlice(), Aggregate(f, seed, x), AggregateWithExit(f, seed, x),
\* x.LoopWithExit(f) or x(f), as the program's driver says.
MainCall(g) ==
    /\ AtPc(g, "main", "run", "start")
    /\ LET s == Stk(g)
           callee ==
             CASE prog.drv = "ToSlice" ->
                    [F0 EXCEPT !.fn = "ToSlice", !.node = Root]
               [] prog.drv = "Aggregate" ->
                    [F0 EXCEPT !.fn = "Aggregate", !.node = Root, !.acc = prog.seed]
               [] prog.drv = "AggregateWithExit" ->
                    [F0 EXCEPT !.fn = "AggregateWithExit", !.node = Root,
                               !.acc = prog.seed]
               [] prog.drv = "LoopWithExit" ->
                    LweFrame(Root, 0)
               [] OTHER ->
                    RunFrame(Root, Len(s), 0)
       IN  Go(g, Call(s, "ret", callee))
    /\ OnlyGs

\* The call returned: Printf("%v\n", x), and the next run if there is one.
MainReturn(g) ==
    /\ AtPc(g, "main", "run", "ret")
    /\ LET s == Stk(g)  f == Top(g) IN
       /\ out' = Append(out, f.lst)
       /\ IF f.i + 1 < prog.runs
          THEN /\ Go(g, SetTop(s, [f EXCEPT !.i = f.i + 1, !.lst = <<>>,
                                            !.pc = "start"]))
               /\ UNCHANGED status
          ELSE /\ Go(g, Ret(s))
               /\ status' = "returned"
    /\ UNCHANGED <<prog, chans, stdout, pulled, failure, nextTok>>

\* loop(func(num int) { Println(num) })
MainCb(g) ==
    /\ At(g, "main", "cb")
    /\ stdout' = Append(stdout, Top(g).e)
    /\ Go(g, Ret(Stk(g)))
    /\ UNCHANGED <<prog, chans, out, pulled, status, failure, nextTok>>

\* The callback of ExampleEnumerator_LoopWithExit:
\*   if i, ok := e.(int); ok { Println(i); Println(i * 100) }
\*   else { Println("---"); exit() }
MainF(g) ==
    /\ At(g, "main", "f")
    /\ LET s == Stk(g)  f == Top(g) IN
       CASE f.pc = "start" /\ IsInt(f.e) ->
              /\ stdout' = stdout \o <<f.e, Wrap(f.e * 100)>>
              /\ Go(g, Ret(s))
         [] f.pc = "start" /\ ~IsInt(f.e) ->
              /\ stdout' = Append(stdout, Dashes)
              /\ Go(g, SetTop(s, [f EXCEPT !.pc = "exit"]))
         [] OTHER ->
              /\ UNCHANGED stdout
              /\ Exit(g)
    /\ UNCHANGED <<prog, chans, out, pulled, status, failure, nextTok>>

\* A panic nothing recovered reaches the caller of the pipeline.
MainFailed(g) ==
    /\ Live(g)
    /\ gs[g].pan # NoPanic
    /\ Top(g).fn = "main" /\ Top(g).role = "run"
    /\ status' = "failed"
    /\ failure' = gs[g].pan
    /\ gs' = [gs EXCEPT ![g].stack = <<>>, ![g].pan = NoPanic]
    /\ UNCHANGED <<prog, chans, out, stdout, pulled, nextTok>>

(***************************************************************************)
(* The programs checked: a pipeline and the way the caller drives it.      *)
(***************************************************************************)
Prog(nodes, drv, runs) ==
    [nodes |-> nodes, drv |-> drv, runs |-> runs, fn |-> "mul", seed |-> 1]
Fold(nodes, drv, f, seed) ==
    [nodes |-> nodes, drv |-> drv, runs |-> 1, fn |-> f, seed |-> seed]

Seqs(S, n) == UNION {[1..k -> S] : k \in 0..n}

Elems   == {1, 2}
IntSeqs == Seqs(Elems, MaxLen)
AnySeqs == Seqs(Elems \cup {Poi}, MaxLen)
Takes   == (0 - 1)..MaxTake
\* <<>>, <<1>>, <<1, 2>>, ...: the slices whose elements tell their position.
Prefixes == {[i \in 1..k |-> i] : k \in 0..(MaxLen + 1)}

ZipProgs ==
    {Prog(Zip("add", From(a), From(b)), "ToSlice", 1) : a \in Prefixes, b \in Prefixes}
    \cup {Prog(Zip("add", From(a), From(<<2, 1>>)), "ToSlice", 1) : a \in IntSeqs}
    \cup {Prog(Zip("add", From(a), IntsFrom(1)), "ToSlice", 1) : a \in Prefixes}
    \cup {Prog(Zip("add", IntsFrom(1), From(b)), "ToSlice", 1) : b \in Prefixes}
    \cup {Prog(Take(n, Zip("add", From(a), From(b))), "ToSlice", 1) :
            n \in 1..MaxLen, a \in Prefixes \ {<<>>}, b \in Prefixes \ {<<>>}}
    \cup {Prog(Take(n, Zip("add", IntsFrom(1), IntsFrom(2))), "ToSlice", 1) :
            n \in 1..MaxTake}

LoopProgs ==
    {Prog(From(a), "LoopWithExit", 1) : a \in AnySeqs}
    \cup {Prog(From(a), "Loop", 1) : a \in IntSeqs}

NestedProgs ==
    {Prog(Take(n, Take(k, From(a))), "ToSlice", 1) :
        n \in 1..MaxLen, k \in 1..MaxLen, a \in IntSeqs}
    \cup {Prog(Take(n, TakeWhile("lt2", From(a))), "ToSlice", 1) :
            n \in 1..MaxLen, a \in IntSeqs}
    \cup {Prog(SelectMany(Take(1, RepeatArg(2)), From(a)), "ToSlice", 1) :
            a \in IntSeqs}
    \cup {Prog(Take(n, SelectMany(Take(1, RepeatArg(2)), From(a))), "ToSlice", 1) :
            n \in 1..MaxLen, a \in IntSeqs}

TakeProgs ==
    {Prog(Take(n, From(a)), "ToSlice", 1) : n \in Takes, a \in IntSeqs}

IntsFromProgs ==
    {Prog(Take(n, IntsFrom(s)), "ToSlice", 1) : n \in 0..MaxTake, s \in {0 - 1, MaxInt}}
    \cup {Prog(Take(n, Where("odd", Select("inc", IntsFrom(s)))), "ToSlice", 1) :
            n \in 0..2, s \in {0, 1}}
    \cup {Prog(IntsFrom(s), "Loop", 1) : s \in {0 - 1, MaxInt}}

FailProgs ==
    {Prog(FromReader(a, err), "ToSlice", 1) : a \in IntSeqs, err \in {0, 1}}
    \cup {Prog(Take(n, FromReader(a, 1)), "ToSlice", 1) : n \in 1..MaxTake, a \in IntSeqs}
    \cup {Prog(TakeWhile("lt2", FromReader(a, 1)), "ToSlice", 1) : a \in IntSeqs}
    \cup {Prog(FromReader(a, 1), d, 1) :
            a \in AnySeqs, d \in {"LoopWithExit", "AggregateWithExit"}}

ZipFailProgs ==
    {Prog(Zip("add", From(a), FromReader(b, 1)), "ToSlice", 1) :
        a \in Prefixes, b \in Prefixes}
    \cup {Prog(Zip("add", FromReader(a, 1), From(b)), "ToSlice", 1) :
            a \in Prefixes, b \in Prefixes}

\* Zip whose function fails on an element that is not an int, and Zip under
\* a consumer that fails: SelectMany running a failing reader per element.
ZipRaiseProgs ==
    {Prog(Zip("addInt", From(a), From(b)), "ToSlice", 1) :
        a \in {<<Poi>>, <<1, Poi>>, <<1, 2, Poi>>}, b \in Prefixes}
    \cup {Prog(SelectMany(FromReader(r, 1), Zip("add", From(a), From(b))), "ToSlice", 1) :
            r \in {<<>>, <<1>>}, a \in Prefixes, b \in Prefixes}

\* Range(start, count).ToSlice(), near zero and near the largest int.
RangeStarts == {0 - 1, 1, MaxInt - 1, MaxInt}
RangeCounts == (0 - 1)..(MaxLen + 1)
RangeProgs ==
    {Prog(Range(start, count), "ToSlice", 1) :
        start \in RangeStarts, count \in RangeCounts}

FoldProgs ==
    {Fold(From(a), "AggregateWithExit", "mul", seed) :
        a \in Seqs(Elems \cup {Poi}, MaxLen + 1), seed \in {1, 3}}
    \cup {Fold(From(a), "Aggregate", f, seed) :
            a \in IntSeqs, f \in {"mul", "add"}, seed \in {1, 3}}
    \cup {Fold(Range(1, n), "Aggregate", "mul", 1) : n \in 0..MaxLen}

\* One combinator, or a chain of them, over a slice, run once.
StageProgs ==
    {Prog(Take(n, Where("odd", Select("inc", From(a)))), "ToSlice", 1) :
        n \in 0..MaxLen, a \in IntSeqs \cup Prefixes}
    \cup {Prog(Where("odd", Select("sq", From(a))), "ToSlice", 1) : a \in Prefixes}
    \cup {Prog(Concat(From(a), From(b)), "ToSlice", 1) :
            a \in IntSeqs, b \in {<<>>, <<2, 1>>}}
    \cup {Prog(Take(n, Concat(From(a), From(<<2, 1>>))), "ToSlice", 1) :
            n \in 1..MaxTake, a \in Prefixes}
    \cup {Prog(Take(n, Concat(IntsFrom(1), From(<<2, 1>>))), "ToSlice", 1) :
            n \in 1..MaxTake}
    \cup {Prog(Concat(IntsFrom(1), From(<<2, 1>>)), "Loop", 1)}
    \cup {Prog(TakeWhile("lt2", From(a)), "ToSlice", 1) : a \in Seqs(Elems, MaxLen + 1)}
    \cup {Prog(SkipWhile("lt2", From(a)), "ToSlice", 1) : a \in Seqs(Elems, MaxLen + 1)}
    \cup {Prog(Select(f, From(a)), "ToSlice", 1) :
            f \in {"inc", "sq"}, a \in IntSeqs \cup Prefixes}

\* The pipelines run twice, whole and cut short by a Take(1) around them.
Replayed ==
    {Take(n, From(a)) : n \in 1..MaxLen, a \in IntSeqs}
    \cup {Skip(n, From(a)) : n \in 0..MaxLen, a \in IntSeqs}
    \cup {SkipWhile("lt2", From(a)) : a \in IntSeqs}
    \cup {TakeWhile("lt2", From(a)) : a \in IntSeqs}
    \cup {Concat(From(a), From(b)) : a \in IntSeqs, b \in {<<>>, <<2, 1>>}}
    \cup {Zip("add", From(<<1, 2>>), From(b)) : b \in {<<2>>, <<2, 1>>}}
    \cup {Concat(Empty, Repeat(2, n)) : n \in 0..MaxLen}

ReplayProgs ==
    {Prog(t, "ToSlice", 2) : t \in Replayed}
    \cup {Prog(Take(1, t), "ToSlice", 2) : t \in Replayed}

Programs ==
    ZipProgs \cup LoopProgs \cup NestedProgs \cup TakeProgs \cup IntsFromProgs
    \cup FailProgs \cup ZipFailProgs \cup FoldProgs \cup ReplayProgs
    \cup StageProgs \cup ZipRaiseProgs \cup RangeProgs

(***************************************************************************)
(* The specification.                                                      *)
(***************************************************************************)
Init ==
    /\ prog \in Programs
    /\ gs = <<[stack |-> <<[F0 EXCEPT !.fn = "main"]>>, pan |-> NoPanic,
               zipDone |-> FALSE]>>
    /\ chans = <<>>
    /\ out = <<>>
    /\ stdout = <<>>
    /\ pulled = [k \in 1..Len(prog.nodes) |-> 0]
    /\ status = "running"
    /\ failure = NoPanic
    /\ nextTok = 1

GStep(g) ==
    \/ MainCall(g) \/ MainReturn(g) \/ MainCb(g) \/ MainF(g) \/ MainFailed(g)
    \/ FromRun(g) \/ FromReaderRun(g) \/ EmptyRun(g) \/ RangeRun(g)
    \/ RepeatRun(g) \/ IntsFromRun(g)
    \/ ToSliceRun(g) \/ ToListRun(g) \/ ToListCb(g)
    \/ AggregateRun(g) \/ AggregateCb(g)
    \/ AggregateWithExitRun(g) \/ AggregateWithExitF(g)
    \/ AggregateWithExitExit(g) \/ AggF(g)
    \/ LoopWithExitRun(g) \/ LoopWithExitDefer(g) \/ LoopWithExitCb(g)
    \/ Unwind(g)
    \/ SelectRun(g) \/ SelectCb(g)
    \/ SelectManyRun(g) \/ SelectManyCb(g) \/ SelectManyCb2(g)
    \/ WhereRun(g) \/ WhereCb(g)
    \/ TakeRun(g) \/ TakeF(g) \/ TakeWhileRun(g) \/ TakeWhileF(g)
    \/ SkipRun(g) \/ SkipCb(g) \/ SkipWhileRun(g) \/ SkipWhileCb(g)
    \/ ConcatRun(g) \/ ConcatCb(g)
    \/ ZipRun(g) \/ ZipLoop(g) \/ ZipDefer(g) \/ ZipRequest(g)
    \/ ZipRecvClosed(g) \/ ZipF(g)
    \/ SendForEachRun(g) \/ SendForEachDefer(g) \/ SendForEachPanicked(g) \/ SendForEachRecv(g)
    \/ SendForEachSend(g) \/ SendForEachF(g)

Next == \E g \in Goroutines : GStep(g)

Spec == Init /\ [][Next]_vars


(***************************************************************************)
(* The specification of the runs that are checked for progress: the        *)
(* programs around Zip and IntsFrom, which never run twice, so that the    *)
(* caller's goroutine and one worker are all there is, and the steps       *)
(* these programs can take.                                                *)
(***************************************************************************)
LivePrograms == ZipProgs \cup IntsFromProgs \cup ZipFailProgs \cup ZipRaiseProgs

LiveInit == Init /\ prog \in LivePrograms

ZipPair == {1, 2}

LiveStep(g) ==
    \/ MainCall(g) \/ MainReturn(g) \/ MainCb(g) \/ MainFailed(g)
    \/ FromRun(g) \/ FromReaderRun(g) \/ IntsFromRun(g)
    \/ ToSliceRun(g) \/ ToListRun(g) \/ ToListCb(g)
    \/ LoopWithExitRun(g) \/ LoopWithExitDefer(g) \/ LoopWithExitCb(g)
    \/ Unwind(g)
    \/ SelectRun(g) \/ SelectCb(g) \/ WhereRun(g) \/ WhereCb(g)
    \/ SelectManyRun(g) \/ SelectManyCb(g) \/ SelectManyCb2(g)
    \/ TakeRun(g) \/ TakeF(g)
    \/ ZipRun(g) \/ ZipLoop(g) \/ ZipDefer(g) \/ ZipRequest(g)
    \/ ZipRecvClosed(g) \/ ZipF(g)
    \/ SendForEachRun(g) \/ SendForEachDefer(g) \/ SendForEachPanicked(g) \/ SendForEachRecv(g)
    \/ SendForEachSend(g) \/ SendForEachF(g)

LiveNext == \E g \in ZipPair : LiveStep(g)

\* Every goroutine that can run gets to run: Go's scheduler is preemptive.
FairSpec == LiveInit /\ [][LiveNext]_vars /\ \A g \in ZipPair : WF_vars(LiveStep(g))

\* The steps left out of LiveNext are steps no program of LivePrograms takes.
LiveNextComplete == [][(prog \in LivePrograms) => LiveNext]_vars

(***************************************************************************)
(* What the documentation says a pipeline yields, for the pipelines over   *)
(* finite sources: the reference the runs are compared with.               *)
(***************************************************************************)
Min(a, b) == IF a < b THEN a ELSE b

RECURSIVE Filter(_, _)
Filter(p, xs) ==
    IF xs = <<>> THEN <<>>
    ELSE (IF Pred(p, Head(xs)) THEN <<Head(xs)>> ELSE <<>>) \o Filter(p, Tail(xs))

RECURSIVE PrefixWhile(_, _)
PrefixWhile(p, xs) ==
    IF xs = <<>> \/ ~Pred(p, Head(xs)) THEN <<>>
    ELSE <<Head(xs)>> \o PrefixWhile(p, Tail(xs))

RECURSIVE DropWhile(_, _)
DropWhile(p, xs) ==
    IF xs = <<>> \/ ~Pred(p, Head(xs)) THEN xs ELSE DropWhile(p, Tail(xs))

FirstN(n, xs) == IF n <= 0 THEN <<>> ELSE SubSeq(xs, 1, Min(n, Len(xs)))
DropN(n, xs)  == IF n <= 0 THEN xs ELSE SubSeq(xs, Min(n, Len(xs)) + 1, Len(xs))
Pairs(f, xs, ys) == [i \in 1..Min(Len(xs), Len(ys)) |-> Apply2(f, xs[i], ys[i])]

Finite(k) ==
    \A j \in 1..k : Node(j).op \notin {"IntsFrom", "FromReader", "Range"}

\* The first MaxPulls elements of IntsFrom(n): what a run can be seen to pull.
Ints(n) == [i \in 1..MaxPulls |-> Wrap(n + i - 1)]

\* Sem(k, arg): the elements of Enumerator k, built with argument arg when it
\* is built by the function handed to SelectMany.
RECURSIVE Sem(_, _), Flat(_, _)
Sem(k, arg) ==
    LET nd == Node(k) IN
    CASE nd.op = "From"       -> nd.xs
      [] nd.op = "Empty"      -> <<>>
      [] nd.op = "Repeat"     -> [i \in 1..nd.m |-> IF nd.fn = "arg" THEN arg ELSE nd.n]
      [] nd.op = "IntsFrom"   -> Ints(nd.n)
      [] nd.op = "Select"     -> LET xs == Sem(nd.up, arg) IN
                                 [i \in 1..Len(xs) |-> Apply1(nd.fn, xs[i])]
      [] nd.op = "SelectMany" -> Flat(nd.up2, Sem(nd.up, arg))
      [] nd.op = "Where"      -> Filter(nd.fn, Sem(nd.up, arg))
      [] nd.op = "Take"       -> FirstN(nd.n, Sem(nd.up, arg))
      [] nd.op = "TakeWhile"  -> PrefixWhile(nd.fn, Sem(nd.up, arg))
      [] nd.op = "Skip"       -> DropN(nd.n, Sem(nd.up, arg))
      [] nd.op = "SkipWhile"  -> DropWhile(nd.fn, Sem(nd.up, arg))
      [] nd.op = "Concat"     -> Sem(nd.up, arg) \o Sem(nd.up2, arg)
      [] nd.op = "Zip"        -> Pairs(nd.fn, Sem(nd.up, arg), Sem(nd.up2, arg))
      [] OTHER                -> <<>>
Flat(k, xs) ==
    IF xs = <<>> THEN <<>> ELSE Sem(k, Head(xs)) \o Flat(k, Tail(xs))

Returned == status = "returned"

\* Sanity of the model's bounds: no program starts more goroutines than the
\* model has, and only never-ending programs reach the observation bound.
BoundsOK ==
    /\ Len(gs) <= MaxG
    /\ \A k \in 1..Len(prog.nodes) : Node(k).op # "IntsFrom" => pulled[k] < MaxPulls

SemOK == (Returned /\ prog.drv = "ToSlice" /\ Finite(Root)) =>
            \A r \in 1..Len(out) : out[r] = Sem(Root, 0)


(***************************************************************************)
(* Zip.                                                                    *)
(***************************************************************************)
\* The function of the Zip at node k returns for every pair of elements of
\* its two slices: none of its type assertions fails.
FReturns(k) ==
    \A a \in {Node(Node(k).up).xs[i] : i \in 1..Len(Node(Node(k).up).xs)},
       b \in {Node(Node(k).up2).xs[j] : j \in 1..Len(Node(Node(k).up2).xs)} :
        ~Panics2(Node(k).fn, a, b)

IsZipOfSlices ==
    /\ prog.drv = "ToSlice"
    /\ Node(Root).op = "Zip" /\ FReturns(Root)
    /\ Node(Node(Root).up).op = "From"
    /\ Node(Node(Root).up2).op = "From"

ZipA == Node(Node(Root).up).xs
ZipB == Node(Node(Root).up2).xs

\* C1: a run of Zip(f, A, B) over finite A and B returns, without a failure,
\* exactly min(|A|, |B|) values, the i-th being f(a_i, b_i), whichever of A and
\* B is the shorter.
C1_ZipPairs ==
    IsZipOfSlices =>
        /\ status \in {"running", "returned"}
        /\ Returned => Len(out) = prog.runs
        /\ \A r \in 1..Len(out) :
              /\ Len(out[r]) = Min(Len(ZipA), Len(ZipB))
              /\ \A i \in 1..Len(out[r]) : out[r][i] = Apply2(Node(Root).fn, ZipA[i], ZipB[i])

\* A run that ended with B the shorter, non-empty input.
C1_Witness ==
    /\ IsZipOfSlices /\ Returned
    /\ Len(ZipA) > Len(ZipB) /\ Len(ZipB) > 0
    /\ Len(out[1]) = Len(ZipB)

\* The worker w belongs to a Zip run that is over.
ZipOver(w) == w <= Len(gs) /\ gs[w].zipDone
\* Goroutine w has left its last frame.
Ended(w)   == w <= Len(gs) /\ gs[w].stack = <<>>

\* C2: once a run of a Zip-produced sequence is over (A exhausted, B
\* exhausted, a failure or an enclosing early stop unwinding through it), the
\* worker started for B eventually terminates; B may be infinite.
C2_WorkerTerminates == \A w \in Goroutines : ZipOver(w) ~> Ended(w)

\* Take over a Zip with an infinite B returned and the worker is gone.
C2_Witness ==
    /\ Returned
    /\ Node(Root).op = "Take"
    /\ Node(Node(Root).up).op = "Zip"
    /\ Node(Node(Node(Root).up).up2).op = "IntsFrom"
    /\ ZipOver(2) /\ Ended(2)

\* The frame of Zip's callback on top of goroutine g, waiting at
\* element2, ok := <-dataChan for the answer to its request.
Waiting(g) ==
    /\ g <= Len(gs) /\ Depth(g) > 0
    /\ Top(g).fn = "Zip" /\ Top(g).role = "f" /\ Top(g).pc = "recv"
Answered(g) ==
    /\ g <= Len(gs) /\ Depth(g) > 0
    /\ Top(g).fn = "Zip" /\ Top(g).role = "f" /\ Top(g).pc = "test"

\* The worker of the Zip run whose callback is on top of goroutine g.
WorkerOf(g) == Stk(g)[Top(g).env].i

PrimaryBlocked(g) ==
    /\ g <= Len(gs) /\ Depth(g) > 0 /\ gs[g].pan = NoPanic
    /\ Top(g).fn = "Zip" /\ Top(g).role = "f"
    /\ LET r == Stk(g)[Top(g).env] IN
       \/ /\ Top(g).pc = "start"
          /\ ~chans[r.qc].closed /\ Len(chans[r.qc].buf) >= chans[r.qc].cap
       \/ /\ Top(g).pc = "recv"
          /\ ~chans[r.dc].closed
          /\ ~(Depth(r.i) > 0 /\ Top(r.i).fn = "sendForEach"
               /\ Top(r.i).role = "f" /\ Top(r.i).pc = "send")

WorkerBlocked(w, g) ==
    /\ Depth(w) > 0 /\ gs[w].pan = NoPanic
    /\ Top(w).fn = "sendForEach" /\ Top(w).role = "f"
    /\ LET r == Stk(w)[Top(w).env] IN
       \/ /\ Top(w).pc = "start"
          /\ ~chans[r.qc].closed /\ chans[r.qc].buf = <<>>
       \/ /\ Top(w).pc = "send"
          /\ ~chans[r.dc].closed
          /\ ~Waiting(g)

NoDeadlock ==
    \A g \in Goroutines : PrimaryBlocked(g) => ~WorkerBlocked(WorkerOf(g), g)

\* The data channel the callback on top of goroutine g receives from.
DataChan(g) == chans[Stk(g)[Top(g).env].dc]

\* C3: no state has the primary and its worker both blocked on the channels,
\* and every request the primary waits on is answered, by an element of B
\* handed to it or by the close of the data channel.
C3_NoDeadlock ==
    /\ []NoDeadlock
    /\ \A g \in Goroutines :
          Waiting(g) ~> (Answered(g) \/ (Waiting(g) /\ DataChan(g).closed))

\* A request answered by the end of B.
C3_Witness == Answered(1) /\ ~Top(1).ok /\ pulled[Node(Root).up] > 0


(***************************************************************************)
(* LoopWithExit and the exit token.                                        *)
(***************************************************************************)
IsPrefix(p, q) == Len(p) <= Len(q) /\ SubSeq(q, 1, Len(p)) = p

\* The position of the first element that is not an int, 0 if there is none.
FirstPoi(xs) ==
    IF \E i \in 1..Len(xs) : xs[i] = Poi
    THEN CHOOSE i \in 1..Len(xs) : xs[i] = Poi /\ \A j \in 1..(i - 1) : xs[j] # Poi
    ELSE 0
\* The elements f sees up to and including the one it exits on.
Seen(xs)   == IF FirstPoi(xs) = 0 THEN Len(xs) ELSE FirstPoi(xs)
Before(xs) == IF FirstPoi(xs) = 0 THEN xs ELSE SubSeq(xs, 1, FirstPoi(xs) - 1)

RECURSIVE Printed(_)
Printed(xs) ==
    IF xs = <<>> THEN <<>> ELSE <<Head(xs), Wrap(Head(xs) * 100)>> \o Printed(Tail(xs))

\* What the callback of ExampleEnumerator_LoopWithExit prints over xs.
Expected(xs) == Printed(Before(xs)) \o (IF FirstPoi(xs) = 0 THEN <<>> ELSE <<Dashes>>)

IsLoopWithExit == prog.drv = "LoopWithExit" /\ Node(Root).op = "From"

\* Some goroutine is about to execute the statement that follows a call of
\* exit: the return 0 of the function handed to AggregateWithExit.
AfterExit ==
    \E g \in Goroutines :
        g <= Len(gs) /\ Depth(g) > 0 /\ gs[g].pan = NoPanic
        /\ Top(g).fn = "AggF" /\ Top(g).pc = "dummy"

\* C4: in LoopWithExit(f), once f has called exit() on element k no further
\* element is pulled, f is not called again, the statements after the call of
\* exit are not executed and LoopWithExit returns normally; when exit is not
\* called, f is called once per element, in order.
C4_ExitStopsLoop ==
    /\ ~AfterExit
    /\ IsLoopWithExit =>
         LET a == Node(Root).xs IN
         /\ status \in {"running", "returned"}
         /\ pulled[Root] <= Seen(a)
         /\ IsPrefix(stdout, Expected(a))
         /\ Returned => stdout = Expected(a) /\ pulled[Root] = Seen(a)

\* LoopWithExit returned after an exit that left elements unseen.
C4_Witness ==
    /\ IsLoopWithExit /\ Returned
    /\ FirstPoi(Node(Root).xs) > 0
    /\ FirstPoi(Node(Root).xs) < Len(Node(Root).xs)
    /\ pulled[Root] = FirstPoi(Node(Root).xs)

IsLwe(f) == f.fn = "LoopWithExit" /\ f.role = "run"

\* The LoopWithExit frames of all stacks, as (goroutine, index) pairs.
LweFrames ==
    {p \in Goroutines \X (1..20) :
        p[1] <= Len(gs) /\ p[2] <= Depth(p[1]) /\ IsLwe(Stk(p[1])[p[2]])
        /\ Stk(p[1])[p[2]].pc = "ret"}

\* Every running LoopWithExit has a token of its own, and a token in flight
\* was minted by a frame of the stack it unwinds.
TokensOwned ==
    /\ \A p, q \in LweFrames :
          Stk(p[1])[p[2]].tok = Stk(q[1])[q[2]].tok => p = q
    /\ \A g \in Goroutines :
          (g <= Len(gs) /\ gs[g].pan.k = "token") =>
              \E p \in LweFrames : p[1] = g /\ Stk(g)[p[2]].tok = gs[g].pan.v

\* A step of goroutine g while a token is in flight: the frame that minted
\* the token ends the panic and returns; every other frame is left with the
\* token unchanged.
TokenStep(g) ==
    (g <= Len(gs) /\ gs[g].pan.k = "token" /\ Depth(g) > 0 /\ gs'[g] # gs[g]) =>
        /\ gs'[g].stack = Ret(Stk(g))
        /\ gs'[g].pan = IF IsLwe(Top(g)) /\ Top(g).tok = gs[g].pan.v
                        THEN NoPanic ELSE gs[g].pan

\* The programs with one exit-capable loop inside another.
Loops == {"Take", "TakeWhile", "Zip"}
IsNested ==
    /\ prog.drv = "ToSlice" /\ Finite(Root)
    /\ Cardinality({k \in 1..Root : Node(k).op \in Loops}) >= 2

\* C5: with exit-capable loops nested in one pipeline, an exit ends exactly
\* the LoopWithExit invocation that minted its token: the frames it passes
\* re-raise it unchanged, and the loops around the minting loop go on with
\* their next element, so that the run yields what the pipeline denotes.
C5_ExitEndsItsOwnLoop ==
    /\ [][\A g \in Goroutines : TokenStep(g)]_vars
    /\ []TokensOwned
    /\ [](IsNested => /\ status \in {"running", "returned"}
                      /\ \A r \in 1..Len(out) : out[r] = Sem(Root, 0))

\* The exit of an outer Take is passing the LoopWithExit of an inner loop.
C5_Witness ==
    /\ IsNested
    /\ gs[1].pan.k = "token" /\ Depth(1) > 0
    /\ IsLwe(Top(1)) /\ Top(1).tok # gs[1].pan.v

(***************************************************************************)
(* Take and IntsFrom.                                                      *)
(***************************************************************************)
IsTakeOfSlice ==
    /\ prog.drv = "ToSlice" /\ prog.runs = 1
    /\ Node(Root).op = "Take" /\ Node(Node(Root).up).op = "From"

\* Some frame runs Enumerator k, or a LoopWithExit over it.
Invoked(k) ==
    \E g \in Goroutines :
        g <= Len(gs) /\ \E j \in 1..Depth(g) : Stk(g)[j].node = k

\* C6: Take(n) over L elements yields the first min(n, L) of them and pulls
\* exactly min(n, L) elements when n > 0; when n <= 0 it yields nothing and
\* never runs its upstream.
C6_TakePulls ==
    IsTakeOfSlice =>
        LET n  == Node(Root).n
            up == Node(Root).up
            a  == Node(up).xs
            m  == IF n > 0 THEN Min(n, Len(a)) ELSE 0
        IN  /\ status \in {"running", "returned"}
            /\ pulled[up] <= m
            /\ n <= 0 => ~Invoked(up)
            /\ Returned => out = <<FirstN(n, a)>> /\ pulled[up] = m

\* Take(n) returned with elements of its upstream left unpulled.
C6_Witness ==
    /\ IsTakeOfSlice /\ Returned
    /\ Node(Root).n > 0 /\ Node(Root).n < Len(Node(Node(Root).up).xs)
    /\ pulled[Node(Root).up] = Node(Root).n

\* Take over IntsFrom, with or without Select and Where in between.
IsTakeOfInts ==
    /\ prog.drv = "ToSlice"
    /\ Node(Root).op = "Take" /\ Node(1).op = "IntsFrom"
    /\ \A k \in 1..Root : Node(k).op \in {"IntsFrom", "Select", "Where", "Take"}
IsIntsAlone == prog.drv = "Loop" /\ Node(Root).op = "IntsFrom"

\* C7: IntsFrom(s).Take(n), n >= 0, also with Select and Where stages in
\* between, returns and yields the first n elements (s, s+1, ... in machine
\* arithmetic); IntsFrom(s) driven alone does not return.
C7_TakeEndsIntsFrom ==
    /\ IsTakeOfInts => <>Returned
    /\ [](IsTakeOfInts /\ Returned =>
            /\ out = <<Sem(Root, 0)>>
            /\ Len(out[1]) = Node(Root).n
            /\ Root = 2 => \A i \in 1..Len(out[1]) : out[1][i] = Wrap(Node(1).n + i - 1))
    /\ [](IsIntsAlone => status = "running")

\* IntsFrom(MaxInt).Take(n) returned n > 1 elements.
C7_Witness ==
    /\ IsTakeOfInts /\ Returned /\ Root = 2
    /\ Node(1).n = MaxInt /\ Len(out[1]) > 1

(***************************************************************************)
(* Failures.                                                               *)
(***************************************************************************)
\* While the caller's goroutine unwinds with a failure, each step leaves the
\* failure as it is, or hands it to the caller.
FailureStep ==
    (gs[1].pan.k = "err") =>
        \/ gs'[1].pan = gs[1].pan
        \/ status' = "failed" /\ failure' = gs[1].pan

\* The programs that read a failing reader on the caller's goroutine.
IsFailingReader ==
    /\ Node(1).op = "FromReader" /\ Node(1).n # 0
    /\ \A k \in 1..Root : Node(k).op # "Zip"

\* C8: a failure raised while a pipeline runs on the caller's control flow
\* reaches the caller with the same value through every LoopWithExit frame,
\* and an exit token never reaches the caller as a failure.
C8_FailurePropagates ==
    /\ [][FailureStep]_vars
    /\ [](failure.k # "token")
    /\ [](IsFailingReader =>
            /\ status = "failed" => failure = ErrPanic(Node(1).n) /\ out = <<>>
            /\ Returned => pulled[1] <= Len(Node(1).xs)
            /\ (gs[1].pan = NoPanic /\ status = "running") \/ Returned
               \/ gs[1].pan = ErrPanic(Node(1).n) \/ gs[1].pan.k = "token"
               \/ status = "failed")

\* The reader's failure reached the caller through Take's LoopWithExit.
C8_Witness ==
    /\ IsFailingReader /\ Node(Root).op = "Take"
    /\ status = "failed" /\ failure = ErrPanic(1)

(***************************************************************************)
(* Folds and replay.                                                       *)
(***************************************************************************)
RECURSIVE FoldL(_, _, _)
FoldL(f, seed, xs) ==
    IF xs = <<>> THEN seed ELSE FoldL(f, Apply2(f, seed, Head(xs)), Tail(xs))

IsAggregateWithExit == prog.drv = "AggregateWithExit" /\ Node(Root).op = "From"
IsAggregate         == prog.drv = "Aggregate" /\ Node(Root).op = "From"

\* C9: AggregateWithExit returns the value handed to exit, pulling nothing
\* after the element f exited on and discarding what f would have returned;
\* when f never exits it returns the left fold, as Aggregate does.
C9_AggregateWithExit ==
    /\ IsAggregateWithExit =>
         LET a == Node(Root).xs
             acc == FoldL("mul", prog.seed, Before(a))
         IN  /\ status \in {"running", "returned"}
             /\ pulled[Root] <= Seen(a)
             /\ Returned =>
                  /\ pulled[Root] = Seen(a)
                  /\ out = <<<<IF FirstPoi(a) = 0 THEN acc ELSE Wrap((0 - 1) * acc)>>>>
    /\ (IsAggregate /\ Returned) =>
         out = <<<<FoldL(prog.fn, prog.seed, Node(Root).xs)>>>>

\* f exited on the second of three elements.
C9_Witness ==
    /\ IsAggregateWithExit /\ Returned
    /\ FirstPoi(Node(Root).xs) = 2 /\ Len(Node(Root).xs) > 2
    /\ out[1][1] < 0

\* C10: a combinator value run twice over replayable sources yields the same
\* elements in the same order both times (also when the first run was cut
\* short by an early exit), every run with channels of its own.
C10_Replay ==
    (prog.runs = 2 /\ Finite(Root)) =>
        /\ status \in {"running", "returned"}
        /\ \A r \in 1..Len(out) : out[r] = Sem(Root, 0)
        /\ Returned => Len(out) = 2 /\ out[1] = out[2]
        /\ Returned =>
             Len(chans) = 4 * Cardinality({k \in 1..Root : Node(k).op = "Zip"})

\* A Zip cut short by Take(1) ran twice.
C10_Witness ==
    /\ prog.runs = 2 /\ Returned
    /\ Node(Root).op = "Take" /\ Node(Node(Root).up).op = "Zip"
    /\ Len(out) = 2 /\ out[1] # <<>> /\ out[1] = out[2]


(***************************************************************************)
(* Laziness.                                                               *)
(***************************************************************************)
\* A chain of Select, Where and Take stages over one source, collected by
\* ToSlice.
IsChain ==
    /\ prog.drv = "ToSlice" /\ prog.runs = 1
    /\ Node(1).op \in {"From", "IntsFrom"}
    /\ Root > 1
    /\ \A k \in 2..Root : Node(k).op \in {"Select", "Where"} \/ (k = Root /\ Node(k).op = "Take")

\* The elements the source of a chain can be seen to yield.
SrcElems == IF Node(1).op = "IntsFrom" THEN Ints(Node(1).n) ELSE Node(1).xs

\* What the stages 2..k of a chain make of the source elements xs.
RECURSIVE Through(_, _)
Through(k, xs) ==
    LET nd == Node(k) IN
    CASE k = 1             -> xs
      [] nd.op = "Select"  -> LET ys == Through(nd.up, xs) IN
                              [i \in 1..Len(ys) |-> Apply1(nd.fn, ys[i])]
      [] nd.op = "Where"   -> Filter(nd.fn, Through(nd.up, xs))
      [] nd.op = "Take"    -> FirstN(nd.n, Through(nd.up, xs))
      [] OTHER             -> <<>>

\* What the consumer has got so far: the list ToList is filling, then the
\* slice handed to the caller.
Collected ==
    IF \E j \in 1..Depth(1) : Stk(1)[j].fn = "ToList" /\ Stk(1)[j].role = "run"
    THEN Stk(1)[CHOOSE j \in 1..Depth(1) :
                  Stk(1)[j].fn = "ToList" /\ Stk(1)[j].role = "run"].lst
    ELSE IF Depth(1) > 0 /\ Top(1).fn \in {"ToSlice", "main"} /\ Top(1).pc = "ret"
    THEN Top(1).lst
    ELSE IF out # <<>> THEN out[1] ELSE <<>>

\* The source's run is the frame executing: about to yield its next element
\* or to return.
SourceRuns ==
    /\ Depth(1) > 0 /\ gs[1].pan = NoPanic
    /\ Top(1).node = 1 /\ Top(1).role = "run" /\ Top(1).fn = Node(1).op

\* C11: nothing is pulled before the pipeline is run; when it runs, each
\* source element has passed through all stages down to the consumer before
\* the source yields its next element, and the source yields nothing after
\* the element that gave the consumer its last value.
C11_DemandDriven ==
    IsChain =>
        LET k    == pulled[1]
            seen == SubSeq(SrcElems, 1, k)
        IN  /\ (Depth(1) = 1 /\ Top(1).pc = "start") => k = 0
            /\ IsPrefix(Collected, Through(Root, seen))
            /\ SourceRuns => Collected = Through(Root, seen)
            /\ (k > 0 /\ Node(Root).op = "Take") =>
                  Len(Through(Root, SubSeq(SrcElems, 1, k - 1))) < Node(Root).n
            /\ Returned => out = <<Through(Root, seen)>>

\* Take(1) over Where over Select returned after the source had yielded two
\* of its three elements, the first of them filtered out.
C11_Witness ==
    /\ IsChain /\ Returned /\ Root = 4
    /\ Len(Node(1).xs) = 3 /\ pulled[1] = 2
    /\ out = <<Through(Root, SubSeq(Node(1).xs, 1, 2))>> /\ Len(out[1]) = 1


(***************************************************************************)
(* Concat.                                                                 *)
(***************************************************************************)
\* The Concat node of a program that concatenates two sources, run once,
\* alone or under a Take; 0 if the program is none of these.
ConcatNode ==
    IF prog.runs = 1 /\ Node(Root).op = "Concat" THEN Root
    ELSE IF prog.runs = 1 /\ Node(Root).op = "Take" /\ Node(Node(Root).up).op = "Concat"
    THEN Node(Root).up
    ELSE 0
IsConcat ==
    /\ ConcatNode # 0
    /\ Node(Node(ConcatNode).up).op \in {"From", "IntsFrom"}
    /\ Node(Node(ConcatNode).up2).op = "From"
ConcatA == Node(ConcatNode).up
ConcatB == Node(ConcatNode).up2

\* C12: Concat(A, B) yields A's elements in order, then B's; B's run is
\* started only after A's run has returned, so B is never run when A is
\* infinite or when an enclosing Take stops the run while A is running.
C12_ConcatInOrder ==
    IsConcat =>
        LET a == Node(ConcatA).xs
            b == Node(ConcatB).xs
            stopped == Node(Root).op = "Take" /\ Node(Root).n <= Len(a)
        IN  /\ status \in {"running", "returned"}
            /\ (Invoked(ConcatB) \/ pulled[ConcatB] > 0) =>
                  /\ ~Invoked(ConcatA)
                  /\ Node(ConcatA).op = "From" /\ pulled[ConcatA] = Len(a)
            /\ (Node(ConcatA).op = "IntsFrom" \/ stopped) =>
                  ~Invoked(ConcatB) /\ pulled[ConcatB] = 0
            /\ (Returned /\ Node(ConcatA).op = "From") =>
                  out = <<IF Node(Root).op = "Take"
                          THEN FirstN(Node(Root).n, a \o b) ELSE a \o b>>

\* Take(n) stopped the run on the last element of A: B was never run.
C12_Witness ==
    /\ IsConcat /\ Returned
    /\ Node(Root).op = "Take" /\ Node(ConcatA).op = "From"
    /\ Node(Root).n = Len(Node(ConcatA).xs)
    /\ pulled[ConcatA] = Node(Root).n /\ pulled[ConcatB] = 0
    /\ Len(out[1]) = Node(Root).n


(***************************************************************************)
(* TakeWhile, SkipWhile, Select.                                           *)
(***************************************************************************)
\* One stage of kind op over a slice, collected by ToSlice in one run.
IsStage(op) ==
    /\ prog.drv = "ToSlice" /\ prog.runs = 1 /\ Root = 2
    /\ Node(Root).op = op /\ Node(1).op = "From"

\* The callback of the stage is about to look at the element it was called
\* with: the next thing it does is evaluate the stage's function on it.
Looking(g, op, role) ==
    /\ g <= Len(gs) /\ Depth(g) > 0 /\ gs[g].pan = NoPanic
    /\ Top(g).fn = op /\ Top(g).role = role /\ Top(g).pc = "start"

\* C13: TakeWhile(pred) yields the longest prefix whose elements satisfy
\* pred; the first failing element is not yielded, pred is evaluated on no
\* element after it, and nothing is pulled after it: upstream pulls are the
\* prefix length + 1, or the full length if no element fails.
C13_TakeWhilePrefix ==
    IsStage("TakeWhile") =>
        LET a    == Node(1).xs
            pre  == PrefixWhile(Node(Root).fn, a)
            need == IF Len(pre) < Len(a) THEN Len(pre) + 1 ELSE Len(a)
        IN  /\ status \in {"running", "returned"}
            /\ pulled[1] <= need
            /\ IsPrefix(Collected, pre)
            /\ \A g \in Goroutines : Looking(g, "TakeWhile", "f") =>
                  /\ Top(g).e = a[pulled[1]]
                  /\ \A j \in 1..(pulled[1] - 1) : Pred(Node(Root).fn, a[j])
            /\ Returned => out = <<pre>> /\ pulled[1] = need

\* TakeWhile stopped on a failing element with an element left unpulled
\* that satisfies pred.
C13_Witness ==
    /\ IsStage("TakeWhile") /\ Returned
    /\ pulled[1] < Len(Node(1).xs)
    /\ Len(out[1]) = pulled[1] - 1 /\ Len(out[1]) > 0
    /\ Pred(Node(Root).fn, Node(1).xs[Len(Node(1).xs)])


\* C14: SkipWhile(pred) discards the leading elements that satisfy pred and
\* yields the first failing element and every later one, also those that
\* satisfy pred; pred is evaluated on no element after the first failing one,
\* and the first element yielded fails pred.
C14_SkipWhileSuffix ==
    IsStage("SkipWhile") =>
        LET a    == Node(1).xs
            p    == Node(Root).fn
            rest == DropWhile(p, a)
        IN  /\ status \in {"running", "returned"}
            /\ IsPrefix(Collected, rest)
            /\ Collected # <<>> => ~Pred(p, Collected[1])
            /\ \A g \in Goroutines :
                  (Looking(g, "SkipWhile", "cb") /\ Stk(g)[Top(g).env].ok) =>
                      \A j \in 1..(pulled[1] - 1) : Pred(p, a[j])
            /\ Returned => out = <<rest>> /\ pulled[1] = Len(a)

\* SkipWhile yielded an element that satisfies pred, after the first
\* failing one.
C14_Witness ==
    /\ IsStage("SkipWhile") /\ Returned
    /\ Len(out[1]) > 1 /\ Len(out[1]) < Len(Node(1).xs)
    /\ Pred(Node(Root).fn, out[1][2])


\* C15: Select(f, seq) yields as many elements as seq, the i-th being f of
\* seq's i-th element; f is applied once per element, in source order.
C15_SelectMaps ==
    IsStage("Select") =>
        LET a      == Node(1).xs
            mapped == [i \in 1..Len(a) |-> Apply1(Node(Root).fn, a[i])]
        IN  /\ status \in {"running", "returned"}
            /\ IsPrefix(Collected, mapped)
            /\ \A g \in Goroutines : Looking(g, "Select", "cb") =>
                  /\ Top(g).e = a[pulled[1]]
                  /\ Len(Collected) = pulled[1] - 1
            /\ Returned => out = <<mapped>> /\ pulled[1] = Len(a)

\* Select returned the images of three elements, none of them its own
\* image.
C15_Witness ==
    /\ IsStage("Select") /\ Returned
    /\ Len(out[1]) = MaxLen + 1
    /\ \A i \in 1..Len(out[1]) : out[1][i] # Node(1).xs[i]


(***************************************************************************)
(* Zip: who runs when.                                                     *)
(***************************************************************************)
\* w is the worker of a Zip run that is not over.  The primary of every
\* program checked is goroutine 1.
ZipActive(w) == w <= Len(gs) /\ w > 1 /\ ~gs[w].zipDone

\* The goroutine has a next step and is not blocked on a channel.
PrimaryRunnable   == Depth(1) > 0 /\ ~PrimaryBlocked(1)
WorkerRunnable(w) == Depth(w) > 0 /\ ~WorkerBlocked(w, 1)

\* The run of a source is the frame executing on goroutine g.
Producing(g) ==
    /\ Depth(g) > 0 /\ gs[g].pan = NoPanic
    /\ Top(g).role = "run" /\ Top(g).fn \in {"From", "IntsFrom", "FromReader"}

\* The primary is pulling A, calling f, or in the consumer's callback.
PrimaryBusy ==
    \/ Producing(1)
    \/ /\ Depth(1) > 0 /\ gs[1].pan = NoPanic
       /\ \/ Top(1).fn = "Zip" /\ Top(1).role = "f" /\ Top(1).pc = "test" /\ Top(1).ok
          \/ Top(1).fn = "ToList" /\ Top(1).role = "cb"

\* C16: during a Zip run the primary and the worker strictly alternate: at
\* every point at most one of the two is runnable, so B's production never
\* executes concurrently with the primary's pulling of A, the call of f or
\* the consumer's callback.
C16_StrictAlternation ==
    \A w \in Goroutines : ZipActive(w) =>
        /\ ~(PrimaryRunnable /\ WorkerRunnable(w))
        /\ ~(PrimaryBusy /\ Producing(w))

\* After the first pair was handed over, B's run is about to produce its
\* second element while the consumer's callback is about to run on the
\* primary.
C16_Witness ==
    /\ IsZipOfSlices /\ ZipActive(2)
    /\ Producing(2) /\ pulled[Node(Root).up2] = 1
    /\ Depth(1) > 0 /\ Top(1).fn = "ToList" /\ Top(1).role = "cb"
    /\ PrimaryRunnable /\ WorkerRunnable(2)


(***************************************************************************)
(* Zip: demand.                                                            *)
(***************************************************************************)
\* One run of a Zip of two sources, collected by ToSlice.
IsZipRun ==
    /\ prog.drv = "ToSlice" /\ prog.runs = 1 /\ Root = 3
    /\ Node(Root).op = "Zip" /\ FReturns(Root)
    /\ Node(1).op \in {"From", "IntsFrom"} /\ Node(2).op \in {"From", "IntsFrom"}

\* A has yielded an element for which quitChan <- true is still to come.
NotYetAsked ==
    /\ Depth(1) > 0 /\ Top(1).pc = "start"
    /\ \/ Top(1).fn = "LoopWithExit" /\ Top(1).role = "cb"
       \/ Top(1).fn = "Zip" /\ Top(1).role = "f"

\* The number of requests the primary has sent: one for each element of A,
\* sent first thing in the callback.
Requests == pulled[1] - (IF NotYetAsked THEN 1 ELSE 0)

\* The worker has pulled an element it has not yet handed over: it is on its
\* way to, or at, dataChan <- element.
Holding(w) ==
    /\ w <= Len(gs) /\ Depth(w) > 0 /\ gs[w].pan = NoPanic
    /\ \/ Top(w).fn = "LoopWithExit" /\ Top(w).role = "cb" /\ Top(w).pc = "start"
       \/ Top(w).fn = "sendForEach" /\ Top(w).role = "f"
          /\ Top(w).pc \in {"start", "send"}

\* Requests counts the sends on quitChan, and nothing else.
RequestsCounted ==
    [][IsZipRun =>
         IF chans # <<>> /\ chans' # <<>> /\ Len(chans'[2].buf) > Len(chans[2].buf)
         THEN Requests' = Requests + 1
         ELSE Requests' = Requests]_vars

\* C17: the worker blocks before B produces its first element until it
\* receives a request, and B is never pulled ahead of demand: at every point
\* B has produced at most as many elements as the primary has sent requests,
\* so B produces nothing when A is empty.
C17_NoPullAheadOfDemand ==
    IsZipRun => pulled[2] <= Requests

\* What the code keeps instead: B is at most one element ahead of demand.
OneAheadOfDemand ==
    IsZipRun => pulled[2] <= Requests + 1

\* A was empty, no request was ever sent, and B has produced an element.
C17_Witness ==
    /\ IsZipRun /\ Returned
    /\ Node(1).op = "From" /\ Node(1).xs = <<>>
    /\ Requests = 0 /\ pulled[2] = 1


\* The primary holds an element of B it has received and not yet passed on
\* in a pair: it is about to call f, or the pair is on its way to the
\* consumer.
InHand ==
    /\ Depth(1) > 0
    /\ \/ Top(1).fn = "Zip" /\ Top(1).role = "f" /\ Top(1).pc = "test" /\ Top(1).ok
       \/ Top(1).fn = "ToList" /\ Top(1).role = "cb"

\* The number of elements of B the primary has received.
Received == Len(Collected) + (IF InHand THEN 1 ELSE 0)

\* Received counts the receives of an element from dataChan, and nothing
\* else.
ReceivedCounted ==
    [][IsZipRun =>
         IF /\ Depth(1) > 0 /\ Top(1).fn = "Zip" /\ Top(1).pc = "recv"
            /\ Len(gs'[1].stack) = Depth(1)
            /\ gs'[1].stack[Depth(1)].pc = "test" /\ gs'[1].stack[Depth(1)].ok
         THEN Received' = Received + 1
         ELSE Received' = Received]_vars

\* C18: at every point of a Zip run at most one element of B is in flight:
\* the elements the worker has pulled from B are at most one more than the
\* elements of B the primary has received, whatever the lengths of A and B.
C18_OneInFlight ==
    IsZipRun => Received <= pulled[2] /\ pulled[2] - Received <= 1

\* The primary has received the first element of B, and the worker holds
\* the second.
C18_Witness ==
    /\ IsZipRun /\ Holding(2)
    /\ Received = 1 /\ pulled[2] = 2


\* The worker has signalled the end of B to the primary: ok is false.
EndOfB ==
    /\ Depth(1) > 0 /\ gs[1].pan = NoPanic
    /\ Top(1).fn = "Zip" /\ Top(1).role = "f" /\ Top(1).pc = "test" /\ ~Top(1).ok

\* C19: when B is exhausted before A, Zip stops by exit as soon as the
\* worker signals the end of B: f is not called and nothing is yielded for
\* the element of A pulled for that round, and no further element of A is
\* pulled, so A is pulled exactly |B| + 1 times when |A| > |B|.
C19_StopsAtEndOfB ==
    (IsZipRun /\ Node(1).op = "From" /\ Node(2).op = "From") =>
        LET la == Len(Node(1).xs)
            lb == Len(Node(2).xs)
            need == IF la > lb THEN lb + 1 ELSE la
        IN  /\ status \in {"running", "returned"}
            /\ pulled[1] <= need
            /\ Received <= lb /\ Len(Collected) <= lb
            /\ EndOfB => pulled[1] = lb + 1 /\ Len(Collected) = lb /\ pulled[2] = lb
            /\ Returned => pulled[1] = need /\ Len(out[1]) = Min(la, lb)

\* B ended two elements before A: A was pulled once more, and not again.
C19_Witness ==
    /\ IsZipRun /\ Returned
    /\ Node(1).op = "From" /\ Node(2).op = "From"
    /\ Len(Node(2).xs) > 0 /\ Len(Node(1).xs) >= Len(Node(2).xs) + 2
    /\ pulled[1] = Len(Node(2).xs) + 1 /\ Len(out[1]) = Len(Node(2).xs)


(***************************************************************************)
(* Zip: the worker's lifetime.                                             *)
(***************************************************************************)
\* C20: the Zip pairing does not outlive the call: when a run of a
\* Zip-produced sequence has returned to its caller, normally or by
\* unwinding, the worker is no longer running, so that no element of B is
\* pulled and no code of B executes after the return.
C20_WorkerGoneAtReturn ==
    /\ \A w \in Goroutines : ZipOver(w) => Ended(w)
    /\ \A w \in Goroutines : ~(ZipOver(w) /\ Producing(w))

\* ToSlice has returned the pairs to the caller, and B's run is about to
\* yield its next element on the worker.
C20_Witness ==
    /\ IsZipRun /\ Returned /\ Node(2).op = "From"
    /\ ZipOver(2) /\ Producing(2)
    /\ Top(2).i < Len(Node(2).xs)


(***************************************************************************)
(* Zip: failures.                                                          *)
(***************************************************************************)
\* One run of a Zip whose B is a reader that fails after its last line.
IsZipOverFailingB ==
    /\ prog.drv = "ToSlice" /\ prog.runs = 1 /\ Root = 3
    /\ Node(Root).op = "Zip"
    /\ Node(1).op = "From"
    /\ Node(2).op = "FromReader" /\ Node(2).n # 0

\* B's failure is in flight on the worker, or has left it.
BFailed ==
    /\ Len(gs) >= 2
    /\ gs[2].pan = ErrPanic(Node(2).n) \/ failure = ErrPanic(Node(2).n)

\* C21: a failure raised by B while the Zip worker drives it ends the Zip
\* run with that failure delivered to the caller of the Zip-produced
\* sequence: it is not lost, not reported to the primary as the normal end
\* of B, and not raised outside the caller's control flow.
C21_WorkerFailureReachesCaller ==
    IsZipOverFailingB =>
        /\ status # "crashed"
        /\ status # "returned"
        /\ BFailed => ~EndOfB
        /\ status = "failed" => failure = ErrPanic(Node(2).n)

\* B's failure left the worker goroutine unrecovered and ended the program,
\* after the primary had taken the closed data channel for the end of B and
\* the Zip run had returned normally.
C21_Witness ==
    /\ IsZipOverFailingB
    /\ status = "crashed" /\ failure = ErrPanic(Node(2).n)
    /\ Len(Node(1).xs) > Len(Node(2).xs)
    /\ ZipOver(2) /\ gs[1].pan = NoPanic

(***************************************************************************)
(* A failure on the caller's side of a Zip run.                            *)
(***************************************************************************)
\* One run of Zip(f, A, B) over a slice B, where A is a failing reader, f
\* fails on an element that is not an int, or the consumer (SelectMany over
\* the Zip) runs a failing reader.
AFails        == Node(1).op = "FromReader" /\ Node(1).n # 0
FFails        == Node(3).fn = "addInt"
ConsumerFails ==
    /\ Root = 5 /\ Node(5).op = "SelectMany"
    /\ Node(4).op = "FromReader" /\ Node(4).n # 0

IsZipRaising ==
    /\ prog.drv = "ToSlice" /\ prog.runs = 1
    /\ Root >= 3 /\ Node(3).op = "Zip" /\ Node(3).up = 1 /\ Node(3).up2 = 2
    /\ Node(2).op = "From"
    /\ AFails \/ FFails \/ ConsumerFails

\* The failure such a run can raise.
Cause ==
    CASE AFails        -> ErrPanic(Node(1).n)
      [] ConsumerFails -> ErrPanic(Node(4).n)
      [] OTHER         -> ConvPanic

\* A failure is unwinding the caller's goroutine.
Failing == gs[1].pan.k \notin {"none", "token"}

\* The frame of Zip's closure is on the caller's stack.
InZipFrame ==
    \E d \in 1..Depth(1) : Stk(1)[d].fn = "Zip" /\ Stk(1)[d].role = "run"

\* C22: when A, f or the consumer raises a failure during a Zip run, the
\* stop signal (close of quitChan) has been sent by the time the failure
\* has left the Zip frame, the failure that travels and that the caller
\* gets is the one that was raised, no goroutine is left with an unrecovered
\* panic, and the worker terminates.
C22_FailureStopsWorker ==
    /\ [](IsZipRaising =>
            /\ status # "crashed"
            /\ Failing => gs[1].pan = Cause /\ Len(chans) = 2
            /\ (Failing /\ ~InZipFrame) => chans[2].closed /\ ZipOver(2)
            /\ status = "failed" =>
                  failure = Cause /\ chans[2].closed /\ ZipOver(2))
    /\ (IsZipRaising /\ Failing) ~> Ended(2)

\* f failed on the second pair: the caller got the failure and the worker,
\* which still had an element of B to offer, is gone.
C22_Witness ==
    /\ IsZipRaising /\ FFails
    /\ status = "failed" /\ failure = ConvPanic
    /\ pulled[1] = 2 /\ Len(Node(2).xs) = 3
    /\ chans[2].closed /\ Ended(2)

(***************************************************************************)
(* The two channels of a Zip run.                                          *)
(***************************************************************************)
\* Goroutine g is at quitChan <- true in Zip's callback.
Requesting(g) ==
    /\ g <= Len(gs) /\ Depth(g) > 0 /\ gs[g].pan = NoPanic
    /\ Top(g).fn = "Zip" /\ Top(g).role = "f" /\ Top(g).pc = "start"

QuitChan(g) == chans[Stk(g)[Top(g).env].qc]

\* Goroutine w is at dataChan <- element in sendForEach's callback.
Sending(w) ==
    /\ w <= Len(gs) /\ Depth(w) > 0 /\ gs[w].pan = NoPanic
    /\ Top(w).fn = "sendForEach" /\ Top(w).role = "f" /\ Top(w).pc = "send"

SendChan(w) == chans[Stk(w)[Top(w).env].dc]

\* C23: in every Zip run quitChan is empty and open whenever the primary is
\* about to send a request, so that the send never blocks, at most one
\* request is ever pending and none follows the close; dataChan is open
\* whenever the worker is about to send on it; no send hits a closed channel.
C23_ChannelDiscipline ==
    /\ \A g \in Goroutines :
          Requesting(g) => QuitChan(g).buf = <<>> /\ ~QuitChan(g).closed
    /\ \A c \in 1..Len(chans) : Len(chans[c].buf) <= 1
    /\ \A w \in Goroutines : Sending(w) => ~SendChan(w).closed
    /\ \A g \in 1..Len(gs) : gs[g].pan # ClosedPanic
    /\ failure # ClosedPanic

\* The primary is about to send the second request of the second run of a
\* Zip, whose worker is running; the channels of the first run are closed.
C23_Witness ==
    /\ Requesting(1) /\ QuitChan(1).buf = <<>>
    /\ prog.runs = 2 /\ Len(out) = 1 /\ Len(chans) = 4
    /\ chans[1].closed /\ chans[2].closed
    /\ Top(1).e = 2 /\ Len(gs) = 3 /\ Depth(3) > 0

(***************************************************************************)
(* Range.                                                                  *)
(***************************************************************************)
\* start, start+1, ..., start+count-1; nothing when count <= 0.
Counting(start, count) ==
    IF count > 0 THEN [i \in 1..count |-> Wrap(start + i - 1)] ELSE <<>>

\* C24: for every start and count, Range(start, count) yields exactly
\* start, start+1, ..., start+count-1 when count > 0 and nothing when
\* count <= 0, also where start+count is beyond the largest int.
C24_RangeCounts ==
    \A start \in RangeStarts, count \in RangeCounts :
        (prog = Prog(Range(start, count), "ToSlice", 1) /\ Returned)
            => out = <<Counting(start, count)>>

\* Range(MaxInt, 1).ToSlice() has returned the empty slice.
C24_Witness ==
    /\ prog = Prog(Range(MaxInt, 1), "ToSlice", 1)
    /\ RangeEnd(MaxInt, 1) = MinInt
    /\ Returned /\ out = <<<<>>>>


====
